---- MODULE Spec2Model ----
(***************************************************************************)
(* A model of the lithium kernel core: the bitmap physical allocator of    *)
(* kernel/memory.rs, and the interrupt-off nesting counter and spinlocks   *)
(* of kernel/arch.rs, kernel/cpu.rs and kernel/spinlock.rs.                *)
(*                                                                         *)
(* Addresses and sizes are plain naturals.  The allocator takes its block  *)
(* size as an argument of reserve(), so the model reserves extents with    *)
(* block sizes 1, 2 and 4: the bitmap arithmetic (bytes of 8 bits, a       *)
(* bitmap stored in the first blocks of the extent) is the code's.         *)
(***************************************************************************)
EXTENDS Integers, Sequences, FiniteSets, Bags, TLC

VARIABLES
    regions,    \* PhysicalAllocator.regions: one Option<PhysicalMemoryBitmap> per slot
    live,       \* bag of the PhysRegion values returned by allocate and not yet given back
    last,       \* the last allocator call: its name, arguments and result
    panicked,   \* "none", or the message of the panic that halted the kernel
    cpu,        \* the core: RFLAGS.IF (iflag) and the Cpu fields noff and intena
    locks,      \* each Spinlock: its lock word and its owner
    pc,         \* the acquire() or release() under way and the statement it has reached
    raw_depth,  \* push_interrupt_off() calls not yet matched by a pop_interrupt_off()
    scope,      \* per lock: how it was taken, and the counter and depth before that
    nest,       \* the interrupt flag found when the scopes now open were first entered
    done,       \* the last call completed on the core
    boot,       \* memory::init: the kernel image, the boot memory map, the areas walked
    gdt,        \* the GlobalDescriptorTable being built: its 8 words and its length
    segs,       \* the last add_entry call, and the selectors loaded into the core
    build,      \* the snapshot that runs: its trap module and its panic handler
    boot_pc,    \* the statement the init routine has reached
    idt,        \* whose interrupt descriptor table the core uses
    pic,        \* the two 8259A chips: mask registers, init sequence, vector offsets
    irq,        \* cpu.irq_mask and the lines enable_irq has been called for
    vectors,    \* IRQ_VECTORS: the 16 handlers and the word of its Mutex
    isr,        \* the trap being handled: vector, statement reached, calls made
    reg,        \* the register_irq_handler call under way
    out,        \* the panic handler: statement reached and what it has emitted
    pgtbl,      \* the page table: the mappings installed
    mapped,     \* the last map_virtual_region call and its result
    heap,       \* the BuddyAllocator: free lists and counters
    heapcall,   \* the last BuddyAllocator call and its result
    thr,        \* the interrupted code and the handlers running on top of it
    pte,        \* a PageTableEntry and the last call made on it
    dtr,        \* the per-CPU init that ran: where its objects stand, what it loaded
    con,        \* the console: its locks, its echo flag, the calls under way
    bump,       \* the BootInfoFrameAllocator and the frames it has handed out
    ring        \* INPUT_BUFFER: the ring of console input and its three indices

allocVars == <<regions, live, last>>

cpuVars == <<cpu, locks, pc, raw_depth, scope, nest, done>>

gdtVars == <<gdt, segs>>

trapVars == <<build, boot_pc, idt, pic, irq, vectors, isr, reg, out>>

vmVars == <<pgtbl, mapped>>

heapVars == <<heap, heapcall>>

\* the trap pipeline, the page table and the kernel heap
lateVars == <<thr, pte, dtr, con, bump, ring>>

baseVars == <<allocVars, boot, cpuVars, gdtVars, trapVars, vmVars, heapVars>>

restVars == <<trapVars, vmVars, heapVars, lateVars>>

----------------------------------------------------------------------------
(* Bounds of the model. *)

\* reserve() calls made in one run
MaxExtents == 2
\* PhysRegion values the caller holds at one time
MaxLive == 2
\* largest size, in bytes, passed to allocate()
MaxAllocSize == 4
\* Spinlocks of the kernel
NumLocks == 2
\* interrupt-off scopes open at one time, those of the locks included
MaxDepth == 2
\* areas the caller of reserve() has when it fills the whole region table
MaxTableAreas == 17
\* areas in the boot memory map
MaxMapAreas == 2

(* Inputs of reserve(): the caller's physical areas <<start, size,         *)
(* block_size>>.  They cover extents of exactly 8 and 16 blocks, extents   *)
(* whose block count is no multiple of 8, extents shorter than 8 blocks,   *)
(* starts and ends that are not block-aligned, and an area too short to    *)
(* hold one aligned block.                                                 *)
ReserveAreas ==
    { <<0, 8, 1>>, <<0, 12, 1>>, <<1, 17, 2>>, <<3, 9, 4>>, <<1, 1, 4>>,
      <<16, 16, 1>>, <<16, 17, 2>>, <<20, 33, 4>>, <<18, 7, 1>>, <<16, 8, 1>> }

\* the i-th of the areas that fill the region table: 8 blocks of 1 byte
TableArea(i) == <<32 * i, 8, 1>>

----------------------------------------------------------------------------
(* Option<T>: None is the empty sequence, Some(x) the sequence <<x>>. *)
None == <<>>
Some(x) == <<x>>

NoPanic == "none"

MAX_PHYS_REGIONS == 16

Slots == 1..MAX_PHYS_REGIONS

----------------------------------------------------------------------------
(* Integer helpers of core and of the x86_64 crate. *)

\* usize::next_multiple_of
next_multiple_of(x, m) == ((x + m - 1) \div m) * m

\* PhysAddr::align_up / align_down for a power-of-two alignment
align_up(addr, align) == ((addr + align - 1) \div align) * align

\* a variant of align_down that rounds outward, to the next multiple
align_down_outward(addr, align) == ((addr + align - 1) \div align) * align

align_down(addr, align) == (addr \div align) * align

(* One byte of the bitmap and its bits: `b & (1 << bit)`, `b |= 1 << bit`, *)
(* `b &= !(1 << bit)`.                                                     *)
BitIsSet(byte, bit) == (byte \div (2 ^ bit)) % 2 = 1
SetBit(byte, bit) == IF BitIsSet(byte, bit) THEN byte ELSE byte + 2 ^ bit
ClearBit(byte, bit) == IF BitIsSet(byte, bit) THEN byte - 2 ^ bit ELSE byte

\* bitmap[i >> 3] & (1 << (i & 7)) != 0; the sequence is indexed from 1
BlockIsSet(bitmap, i) == BitIsSet(bitmap[(i \div 8) + 1], i % 8)
SetBlock(bitmap, i) == [bitmap EXCEPT ![(i \div 8) + 1] = SetBit(@, i % 8)]
ClearBlock(bitmap, i) == [bitmap EXCEPT ![(i \div 8) + 1] = ClearBit(@, i % 8)]

----------------------------------------------------------------------------
(* PhysRegion *)

PhysRegion(start, size) == [start_address |-> start, size |-> size]

end_address(r) == r.start_address + r.size

intersects(a, b) ==
    ~(end_address(a) <= b.start_address \/ a.start_address >= end_address(b))

----------------------------------------------------------------------------
(* PhysicalMemoryBitmap *)

\* the loop of new() that sets the bits of the blocks holding the bitmap
RECURSIVE MarkReserved(_, _, _)
MarkReserved(bitmap, index, remaining) ==
    IF remaining = 0 THEN bitmap
    ELSE MarkReserved(SetBlock(bitmap, index), index + 1, remaining - 1)

\* `end_aligned - start_aligned` is PhysAddr subtraction, which panics below zero
NewPanics(start_addr, size, block_size) ==
    align_down(start_addr + size, block_size) < align_up(start_addr, block_size)

PhysicalMemoryBitmapNew(start_addr, size, block_size) ==
    LET start_aligned == align_up(start_addr, block_size)
        end_aligned == align_down(start_addr + size, block_size)
        aligned_size == end_aligned - start_aligned
        bitmap_size == (aligned_size \div block_size) \div 8
        reserved == next_multiple_of(bitmap_size, block_size) \div block_size
    IN  [start_addr |-> start_aligned,
         size |-> aligned_size,
         block_size |-> block_size,
         blocks_remaining |-> (aligned_size \div block_size) - reserved,
         reserved |-> reserved,
         bitmap |-> MarkReserved([i \in 1..bitmap_size |-> 0], 0, reserved)]

bytes_remaining(e) == e.blocks_remaining * e.block_size

\* a variant of bytes_to_blocks that rounds down
bytes_to_blocks_floor(e, size) == size \div e.block_size

bytes_to_blocks(e, size) == next_multiple_of(size, e.block_size) \div e.block_size

bitmap_end(e) == Len(e.bitmap) * 8

bitmap_start(e) == e.reserved

total_blocks(e) == e.size \div e.block_size

\* a variant of InReservedPrefix that never rejects a frame
InReservedPrefixNever(e, start_block) == FALSE

\* `start_block < self.reserved`: the frame starts in the blocks that hold the bitmap
InReservedPrefix(e, start_block) == start_block < e.reserved

\* a variant of RestoreCount that forgets the blocks given back
RestoreCountLost(blocks_remaining, blocks) == blocks_remaining

\* `self.blocks_remaining += blocks`
RestoreCount(blocks_remaining, blocks) == blocks_remaining + blocks

\* PhysAddr - PhysAddr panics when the result would be negative
FrameBelow(e, frame) == frame.start_address < e.start_addr

contains_frame(e, frame) ==
    LET start_block == (frame.start_address - e.start_addr) \div e.block_size
        blocks == next_multiple_of(frame.size, e.block_size) \div e.block_size
        end_block == start_block + blocks
    IN  start_block < total_blocks(e) /\ end_block <= total_blocks(e)

\* the first-fit scan of allocate(): Some(start_block) of the run found, or None
RECURSIVE ScanFrom(_, _, _, _, _)
ScanFrom(e, i, consecutive_blocks, start_block, blocks) ==
    IF i >= bitmap_end(e) THEN None
    ELSE IF ~BlockIsSet(e.bitmap, i)
         THEN LET sb == IF consecutive_blocks = 0 THEN i ELSE start_block
              IN  IF consecutive_blocks + 1 = blocks
                  THEN Some(sb)
                  ELSE ScanFrom(e, i + 1, consecutive_blocks + 1, sb, blocks)
         ELSE ScanFrom(e, i + 1, 0, start_block, blocks)

\* a variant of MarkRun that leaves the last block of the run unmarked
RECURSIVE MarkRunShort(_, _, _)
MarkRunShort(bitmap, j, stop) ==
    IF j >= stop - 1 THEN bitmap ELSE MarkRunShort(SetBlock(bitmap, j), j + 1, stop)

\* the inner loop of allocate(): mark blocks j..stop-1 allocated
RECURSIVE MarkRun(_, _, _)
MarkRun(bitmap, j, stop) ==
    IF j >= stop THEN bitmap ELSE MarkRun(SetBlock(bitmap, j), j + 1, stop)

\* PhysicalMemoryBitmap::allocate: the extent afterwards and the Option<PhysRegion>
BitmapAllocate(e, blocks) ==
    LET found == ScanFrom(e, bitmap_start(e), 0, 0, blocks)
    IN  IF found = None
        THEN [ext |-> e, ret |-> None]
        ELSE LET start_block == found[1]
             IN  [ext |-> [e EXCEPT
                             !.bitmap = MarkRun(@, start_block, start_block + blocks),
                             !.blocks_remaining = @ - blocks],
                  ret |-> Some(PhysRegion(e.start_addr + start_block * e.block_size,
                                          blocks * e.block_size))]

(* The loop of try_deallocate() over start_block..end_block.  It stops at  *)
(* the first block whose byte lies outside the bitmap slice (an index      *)
(* panic) or whose bit is clear (the assertion), with the earlier blocks   *)
(* already cleared.                                                        *)
RECURSIVE ClearRun(_, _, _)
ClearRun(bitmap, block, end_block) ==
    IF block >= end_block THEN [bitmap |-> bitmap, panic |-> NoPanic]
    ELSE IF (block \div 8) + 1 > Len(bitmap)
         THEN [bitmap |-> bitmap, panic |-> "index out of bounds"]
    ELSE IF ~BlockIsSet(bitmap, block)
         THEN [bitmap |-> bitmap, panic |-> "Deallocating block that was not held before."]
    ELSE ClearRun(ClearBlock(bitmap, block), block + 1, end_block)

\* PhysicalMemoryBitmap::try_deallocate: the extent afterwards, the bool, the panic
try_deallocate(e, frame) ==
    IF FrameBelow(e, frame)
    THEN [ext |-> e, ok |-> FALSE, panic |-> "attempt to subtract with overflow"]
    ELSE LET blocks == next_multiple_of(frame.size, e.block_size) \div e.block_size
             relative_addr == frame.start_address - e.start_addr
             start_block == relative_addr \div e.block_size
             end_block == start_block + blocks
         IN  IF InReservedPrefix(e, start_block)
             THEN [ext |-> e, ok |-> FALSE, panic |-> NoPanic]
             ELSE IF ~contains_frame(e, frame)
             THEN [ext |-> e, ok |-> FALSE, panic |-> NoPanic]
             ELSE LET run == ClearRun(e.bitmap, start_block, end_block)
                  IN  IF run.panic # NoPanic
                      THEN [ext |-> [e EXCEPT !.bitmap = run.bitmap],
                            ok |-> FALSE, panic |-> run.panic]
                      ELSE [ext |-> [e EXCEPT !.bitmap = run.bitmap,
                                              !.blocks_remaining = RestoreCount(@, blocks)],
                            ok |-> TRUE, panic |-> NoPanic]

----------------------------------------------------------------------------
(* PhysicalAllocator *)

\* PhysicalAllocator::new
PhysicalAllocatorNew == [k \in Slots |-> None]

\* a variant of FirstEmptySlot that takes slot 1 again when the table is full
FirstEmptySlotWraps(regs) ==
    IF \E k \in Slots : regs[k] = None
    THEN CHOOSE k \in Slots : regs[k] = None /\ \A j \in 1..(k - 1) : regs[j] # None
    ELSE 1

\* regions.iter_mut().find(|i| i.is_none()): the first empty slot, 0 when full
FirstEmptySlot(regs) ==
    IF \E k \in Slots : regs[k] = None
    THEN CHOOSE k \in Slots : regs[k] = None /\ \A j \in 1..(k - 1) : regs[j] # None
    ELSE 0

\* the loop of PhysicalAllocator::allocate over the occupied slots, from slot k
RECURSIVE AllocateFrom(_, _, _)
AllocateFrom(regs, k, size) ==
    IF k > MAX_PHYS_REGIONS THEN [regions |-> regs, ret |-> None]
    ELSE IF regs[k] = None THEN AllocateFrom(regs, k + 1, size)
    ELSE LET e == regs[k][1]
         IN  IF bytes_remaining(e) >= size
             THEN LET r == BitmapAllocate(e, bytes_to_blocks(e, size))
                  IN  IF r.ret # None
                      THEN [regions |-> [regs EXCEPT ![k] = Some(r.ext)], ret |-> r.ret]
                      ELSE AllocateFrom(regs, k + 1, size)
             ELSE AllocateFrom(regs, k + 1, size)

PhysicalAllocatorAllocate(regs, size) == AllocateFrom(regs, 1, size)

\* PhysicalAllocator::bytes_remaining
RECURSIVE SumBytesRemaining(_, _)
SumBytesRemaining(regs, k) ==
    IF k > MAX_PHYS_REGIONS THEN 0
    ELSE (IF regs[k] = None THEN 0 ELSE bytes_remaining(regs[k][1]))
         + SumBytesRemaining(regs, k + 1)

PhysicalAllocatorBytesRemaining(regs) == SumBytesRemaining(regs, 1)

\* the loop of PhysicalAllocator::deallocate over the occupied slots, from slot k
RECURSIVE DeallocateFrom(_, _, _)
DeallocateFrom(regs, k, frame) ==
    IF k > MAX_PHYS_REGIONS
    THEN [regions |-> regs, panic |-> "Could not deallocate given frame."]
    ELSE IF regs[k] = None THEN DeallocateFrom(regs, k + 1, frame)
    ELSE LET r == try_deallocate(regs[k][1], frame)
         IN  IF r.panic # NoPanic
             THEN [regions |-> [regs EXCEPT ![k] = Some(r.ext)], panic |-> r.panic]
             ELSE IF r.ok
             THEN [regions |-> [regs EXCEPT ![k] = Some(r.ext)], panic |-> NoPanic]
             ELSE DeallocateFrom(regs, k + 1, frame)

PhysicalAllocatorDeallocate(regs, frame) == DeallocateFrom(regs, 1, frame)

----------------------------------------------------------------------------
(* The extents of a state, and the caller's view of them. *)

Extents(regs) == {regs[k][1] : k \in {j \in Slots : regs[j] # None}}

NumExtents(regs) == Cardinality({k \in Slots : regs[k] # None})

LiveSet == BagToSet(live)

\* the area [start, start + size) lies apart from every extent already reserved
DisjointFromExtents(regs, start, size) ==
    \A e \in Extents(regs) :
        start + size <= e.start_addr \/ e.start_addr + e.size <= start

----------------------------------------------------------------------------
(* The core's interrupt flag and the nesting counter of the Cpu structure  *)
(* (arch.rs `noff`, cpu.rs `ncli`; the two variants run the same           *)
(* statements).                                                            *)

\* cpu::init: noff = 0, intena = false; the kernel boots with interrupts off
CpuInit == [iflag |-> FALSE, noff |-> 0, intena |-> FALSE]

\* a flow of control on the core: the interrupted code ("main") or a trap
\* handler; `op` and `at` say which statement of push_interrupt_off or
\* pop_interrupt_off it runs next, `enabled` is the local of that call,
\* `depth` the scopes it has open, `flag0` the flag when its outermost scope
\* began, `hit` whether a trap arrived between the read of the flag and cli
Flow(kind, noff0, saved_if) ==
    [kind |-> kind, op |-> "idle", at |-> 0, enabled |-> FALSE, depth |-> 0,
     noff0 |-> noff0, saved_if |-> saved_if, flag0 |-> FALSE, hit |-> FALSE,
     ended |-> FALSE]

\* the id that kernel_main gives the boot core
CpuId == 0

\* a variant of push_interrupt_off that saves the flag on every call
push_interrupt_off_resave(c) ==
    [c EXCEPT !.intena = c.iflag, !.iflag = FALSE, !.noff = @ + 1]

\* a variant of push_interrupt_off without the cli
push_interrupt_off_nocli(c) ==
    [c EXCEPT !.intena = IF c.noff = 0 THEN c.iflag ELSE @, !.noff = @ + 1]

\* push_interrupt_off: read the flag, cli, save the flag at depth 0, count
push_interrupt_off(c) ==
    [c EXCEPT !.intena = IF c.noff = 0 THEN c.iflag ELSE @,
              !.iflag = FALSE,
              !.noff = @ + 1]

\* a variant of pop_panic without the assertion on the interrupt flag
pop_panic_counter_only(c) ==
    IF c.noff = 0 THEN "pop_intr(): noff = 0" ELSE NoPanic

\* the two assertions of pop_interrupt_off
pop_panic(c) ==
    IF c.iflag THEN "pop_intr(): interrupts should not be enabled"
    ELSE IF c.noff = 0 THEN "pop_intr(): noff = 0"
    ELSE NoPanic

\* a variant of pop_interrupt_off that sets the flag at any depth
pop_interrupt_off_eager(c) ==
    [c EXCEPT !.noff = @ - 1, !.iflag = IF c.intena THEN TRUE ELSE @]

\* pop_interrupt_off past its assertions: count down, sti at depth 0 if saved
pop_interrupt_off(c) ==
    [c EXCEPT !.noff = @ - 1,
              !.iflag = IF c.noff - 1 = 0 /\ c.intena THEN TRUE ELSE @]

\* without_interrupts(f) for an f that leaves the core alone: push, f, pop
without_interrupts(c) ==
    LET pushed == push_interrupt_off(c)
    IN  IF pop_panic(pushed) # NoPanic
        THEN [cpu |-> pushed, panic |-> pop_panic(pushed)]
        ELSE [cpu |-> pop_interrupt_off(pushed), panic |-> NoPanic]

----------------------------------------------------------------------------
(* Spinlock, and SpinMutex and MutexGuard, which wrap one. *)

Locks == 1..NumLocks

\* Spinlock::new
SpinlockNew == [locked |-> 0, cpu |-> None]

\* a variant of holding that looks at the lock word only
holding_word(lk) == lk.locked # 0

\* Spinlock::holding
holding(lk) == lk.locked # 0 /\ lk.cpu = Some(CpuId)

\* a variant of Unlocked that leaves the lock word set
UnlockedNot(lk) == lk

\* asm::xchg(&mut self.locked, 0) in release()
Unlocked(lk) == [lk EXCEPT !.locked = 0]

(* How a lock is taken and given back: Spinlock::acquire and release       *)
(* called directly, SpinMutex::lock and the drop of its MutexGuard, or     *)
(* SpinMutex::with_lock around its thunk.                                  *)
Hows == {"acquire", "lock", "with_lock"}

Idle == [op |-> "idle", lock |-> 0, step |-> "none", how |-> "none",
         noff_before |-> 0, depth_before |-> 0]

FreeScope == [how |-> "free", holders |-> 0, noff_before |-> 0, depth_before |-> 0]

Done(op, lock, how, noff_before, depth_before) ==
    [op |-> op, lock |-> lock, how |-> how,
     noff_before |-> noff_before, depth_before |-> depth_before]

\* the locks taken and not yet given back
OpenScopes == {l \in Locks : scope[l].how # "free"}

\* the interrupt-off scopes open: the pushes, the locks, an acquire under way
Depth == raw_depth + Cardinality(OpenScopes) + (IF pc.op = "acquire" THEN 1 ELSE 0)

\* the record of the flag found by the call that opens a scope
Entered(how) ==
    [flag0 |-> IF Depth = 0 THEN cpu.iflag ELSE nest.flag0,
     peak |-> IF Depth = 0 THEN 1
              ELSE IF Depth + 1 > nest.peak THEN Depth + 1 ELSE nest.peak,
     acq_flag |-> IF how # "push" /\ OpenScopes = {} THEN cpu.iflag ELSE nest.acq_flag,
     acq_raw |-> IF how # "push" /\ OpenScopes = {} THEN raw_depth ELSE nest.acq_raw]

\* trap::init: interrupts::enable(), outside every scope
EnableInterrupts ==
    /\ panicked = NoPanic
    /\ pc = Idle
    /\ Depth = 0
    /\ ~cpu.iflag
    /\ cpu' = [cpu EXCEPT !.iflag = TRUE]
    /\ done' = Done("enable", 0, "none", cpu.noff, Depth)
    /\ UNCHANGED <<locks, pc, raw_depth, scope, nest, panicked, allocVars, boot, gdtVars, restVars>>

(* asm::sti() inside an interrupt-off scope: a violation of the protocol   *)
(* that pop_interrupt_off looks for                                        *)
EnableInScope ==
    /\ panicked = NoPanic
    /\ pc = Idle
    /\ Depth > 0
    /\ ~cpu.iflag
    /\ cpu' = [cpu EXCEPT !.iflag = TRUE]
    /\ done' = Done("enable", 0, "none", cpu.noff, Depth)
    /\ UNCHANGED <<locks, pc, raw_depth, scope, nest, panicked, allocVars, boot, gdtVars, restVars>>

\* push_interrupt_off()
PushInterruptOff ==
    /\ panicked = NoPanic
    /\ pc = Idle
    /\ Depth < MaxDepth
    /\ cpu' = push_interrupt_off(cpu)
    /\ raw_depth' = raw_depth + 1
    /\ nest' = Entered("push")
    /\ done' = Done("push", 0, "none", cpu.noff, Depth)
    /\ UNCHANGED <<locks, pc, scope, panicked, allocVars, boot, gdtVars, restVars>>

(* pop_interrupt_off(), matching an earlier push, or called with no scope  *)
(* open at all                                                             *)
PopInterruptOff ==
    /\ panicked = NoPanic
    /\ pc = Idle
    /\ raw_depth > 0 \/ Depth = 0
    /\ IF pop_panic(cpu) # NoPanic
       THEN /\ panicked' = pop_panic(cpu)
            /\ UNCHANGED <<cpu, raw_depth>>
       ELSE /\ cpu' = pop_interrupt_off(cpu)
            /\ raw_depth' = IF raw_depth > 0 THEN raw_depth - 1 ELSE 0
            /\ UNCHANGED panicked
    /\ done' = Done("pop", 0, "none", cpu.noff, Depth)
    /\ UNCHANGED <<locks, pc, scope, nest, allocVars, boot, gdtVars, restVars>>

\* acquire(): cpu::push_interrupt_off()
AcquirePush(l, how) ==
    /\ panicked = NoPanic
    /\ pc = Idle
    /\ Depth < MaxDepth
    /\ cpu' = push_interrupt_off(cpu)
    /\ pc' = [op |-> "acquire", lock |-> l, step |-> "assert", how |-> how,
              noff_before |-> cpu.noff, depth_before |-> Depth]
    /\ nest' = Entered(how)
    /\ UNCHANGED <<locks, raw_depth, scope, done, panicked, allocVars, boot, gdtVars, restVars>>

\* acquire(): assert!(!self.holding()); holding() runs inside without_interrupts
AcquireAssert ==
    /\ panicked = NoPanic
    /\ pc.op = "acquire" /\ pc.step = "assert"
    /\ LET w == without_interrupts(cpu)
       IN  /\ cpu' = w.cpu
           /\ IF w.panic # NoPanic
              THEN panicked' = w.panic /\ UNCHANGED pc
              ELSE IF holding(locks[pc.lock])
              THEN panicked' = "acquire(): nested lock" /\ UNCHANGED pc
              ELSE pc' = [pc EXCEPT !.step = "xchg"] /\ UNCHANGED panicked
    /\ UNCHANGED <<locks, raw_depth, scope, nest, done, allocVars, boot, gdtVars, restVars>>

(* acquire(): one turn of `while asm::xchg(&mut self.locked, 1) != 0`; the *)
(* loop goes on while the word read was not 0                              *)
AcquireXchg ==
    /\ panicked = NoPanic
    /\ pc.op = "acquire" /\ pc.step = "xchg"
    /\ locks' = [locks EXCEPT ![pc.lock].locked = 1]
    /\ pc' = IF locks[pc.lock].locked # 0 THEN pc ELSE [pc EXCEPT !.step = "owner"]
    /\ UNCHANGED <<cpu, raw_depth, scope, nest, done, panicked, allocVars, boot, gdtVars, restVars>>

\* acquire(): self.cpu = Some(cpu::id()); the call returns
AcquireOwner ==
    /\ panicked = NoPanic
    /\ pc.op = "acquire" /\ pc.step = "owner"
    /\ locks' = [locks EXCEPT ![pc.lock].cpu = Some(CpuId)]
    /\ scope' = [scope EXCEPT ![pc.lock] =
                    [how |-> pc.how, holders |-> @.holders + 1,
                     noff_before |-> pc.noff_before, depth_before |-> pc.depth_before]]
    /\ done' = Done("acquire", pc.lock, pc.how, pc.noff_before, pc.depth_before)
    /\ pc' = Idle
    /\ UNCHANGED <<cpu, raw_depth, nest, panicked, allocVars, boot, gdtVars, restVars>>

(* release(), the drop of a MutexGuard or the end of with_lock's thunk:    *)
(* assert!(self.holding())                                                 *)
ReleaseAssert(l) ==
    /\ panicked = NoPanic
    /\ pc = Idle
    /\ LET w == without_interrupts(cpu)
       IN  /\ cpu' = w.cpu
           /\ IF w.panic # NoPanic
              THEN panicked' = w.panic /\ UNCHANGED pc
              ELSE IF ~holding(locks[l])
              THEN panicked' = "release(): unlocking unheld lock" /\ UNCHANGED pc
              ELSE /\ pc' = [op |-> "release", lock |-> l, step |-> "clear",
                             how |-> scope[l].how,
                             noff_before |-> scope[l].noff_before,
                             depth_before |-> scope[l].depth_before]
                   /\ UNCHANGED panicked
    /\ UNCHANGED <<locks, raw_depth, scope, nest, done, allocVars, boot, gdtVars, restVars>>

\* release(): self.cpu = None
ReleaseClear ==
    /\ panicked = NoPanic
    /\ pc.op = "release" /\ pc.step = "clear"
    /\ locks' = [locks EXCEPT ![pc.lock].cpu = None]
    /\ pc' = [pc EXCEPT !.step = "xchg"]
    /\ UNCHANGED <<cpu, raw_depth, scope, nest, done, panicked, allocVars, boot, gdtVars, restVars>>

\* release(): asm::xchg(&mut self.locked, 0)
ReleaseXchg ==
    /\ panicked = NoPanic
    /\ pc.op = "release" /\ pc.step = "xchg"
    /\ locks' = [locks EXCEPT ![pc.lock] = Unlocked(@)]
    /\ pc' = [pc EXCEPT !.step = "pop"]
    /\ UNCHANGED <<cpu, raw_depth, scope, nest, done, panicked, allocVars, boot, gdtVars, restVars>>

\* release(): cpu::pop_interrupt_off(); the call returns
ReleasePop ==
    /\ pc.op = "release" /\ pc.step = "pop"
    /\ panicked = NoPanic
    /\ IF pop_panic(cpu) # NoPanic
       THEN /\ panicked' = pop_panic(cpu)
            /\ UNCHANGED <<cpu, pc, scope, done>>
       ELSE /\ cpu' = pop_interrupt_off(cpu)
            /\ scope' = [scope EXCEPT ![pc.lock] = FreeScope]
            /\ done' = Done("release", pc.lock, pc.how, pc.noff_before, pc.depth_before)
            /\ pc' = Idle
            /\ UNCHANGED panicked
    /\ UNCHANGED <<locks, raw_depth, nest, allocVars, boot, gdtVars, restVars>>

----------------------------------------------------------------------------
(* memory::init: the boot memory map and the kernel image. *)

\* the alignment of MemoryArea and the block size init passes to reserve()
PAGE == 4096

\* MemoryAreaType, as far as init tells the types apart
Invalid == "Invalid"
Available == "Available"
Reserved == "Reserved"

MemoryArea(addr, len, area_type) == [addr |-> addr, len |-> len, area_type |-> area_type]

\* MemoryArea::start_address, end_address and size
area_start_address(a) == align_up(a.addr, PAGE)
area_end_address(a) == align_down(a.addr + a.len, PAGE)
area_size(a) == a.len

(* The kernel images [__kernel_start, __kernel_end) of the linker: one     *)
(* that ends on a page boundary, one that does not.                        *)
KernelImages == { PhysRegion(2 * PAGE, 2 * PAGE), PhysRegion(2 * PAGE, PAGE + 1904) }

(* The areas a boot loader may report: below the kernel, starting with the *)
(* kernel, around it, inside it, above it (aligned, unaligned, two that    *)
(* overlap, two that touch at an unaligned address), one shorter than a    *)
(* page, one that is not RAM, and the entry that ends the map.             *)
MapAreas ==
    { MemoryArea(0, 2 * PAGE, Available),
      MemoryArea(2 * PAGE, 12 * PAGE, Available),
      MemoryArea(PAGE, 16 * PAGE, Available),
      MemoryArea(2 * PAGE + 808, 1000, Available),
      MemoryArea(4 * PAGE, 9 * PAGE, Available),
      MemoryArea(5 * PAGE, 9 * PAGE, Available),
      MemoryArea(4 * PAGE + 100, 9 * PAGE + 1000, Available),
      MemoryArea(13 * PAGE + 1100, 10 * PAGE, Available),
      MemoryArea(30 * PAGE + 1, 10, Available),
      MemoryArea(24 * PAGE, 4 * PAGE, Reserved),
      MemoryArea(0, 0, Invalid) }

\* the boot memory maps: up to MaxMapAreas of the areas, in any order
RECURSIVE MapsOfLength(_)
MapsOfLength(n) ==
    IF n = 0 THEN { <<>> }
    ELSE { Append(m, a) : m \in MapsOfLength(n - 1), a \in MapAreas }

MemoryMaps ==
    { m \in UNION { MapsOfLength(n) : n \in 0..MaxMapAreas } :
        \A i, j \in 1..Len(m) : i # j => m[i] # m[j] }

\* the frame init builds from an area: aligned start, unaligned length
AreaFrame(a) == PhysRegion(area_start_address(a), area_size(a))

\* a variant of ReserveStart that ignores the kernel image
ReserveStartAnywhere(frame, kernel) == frame.start_address

\* `if frame.intersects(&kernel_frame) { start = kernel_frame.end_address(); ... }`
ReserveStart(frame, kernel) ==
    IF intersects(frame, kernel) THEN end_address(kernel) ELSE frame.start_address

\* `size = (frame.end_address() - start) as usize`, PhysAddr subtraction
ReserveSizePanics(frame, kernel) ==
    intersects(frame, kernel) /\ end_address(frame) < end_address(kernel)

ReserveSize(frame, kernel) ==
    IF intersects(frame, kernel)
    THEN end_address(frame) - ReserveStart(frame, kernel)
    ELSE frame.size

\* before kernel_main calls memory::init
NotBooted == [kernel |-> PhysRegion(0, 0), mmap |-> <<>>, walked |-> 0, started |-> FALSE]

----------------------------------------------------------------------------
(* Segment descriptors and the GlobalDescriptorTable of arch.rs.  A u64 is *)
(* the set of the positions of its 1 bits, so `|` is \cup and `&` is \cap. *)

\* value.get_bits(lo..hi)
get_bits(value, lo, hi) == { b - lo : b \in { x \in value : lo <= x /\ x < hi } }

\* word.set_bits(lo..hi, value), for a value that fits the field
set_bits(word, lo, hi, value) == (word \ (lo..(hi - 1))) \cup { b + lo : b \in value }

\* value >> n
shr(value, n) == { b - n : b \in { x \in value : x >= n } }

\* `as u16` of a word, and the word of a number below 2^16
RECURSIVE as_u16(_)
as_u16(value) ==
    LET low == { b \in value : b < 16 }
    IN  IF low = {} THEN 0
        ELSE LET b == CHOOSE x \in low : TRUE
             IN  2 ^ b + as_u16(low \ {b})

from_u16(n) == { b \in 0..15 : (n \div (2 ^ b)) % 2 = 1 }

\* SegmentDescriptorFlags, each flag the set of its bit positions
SegmentDescriptorFlags ==
    [ ACCESSED |-> {40}, WRITABLE |-> {41}, CONFORMING |-> {42}, EXECUTABLE |-> {43},
      USER_SEGMENT |-> {44}, DPL_RING_3 |-> {45, 46}, PRESENT |-> {47}, AVAILABLE |-> {52},
      LONG_MODE |-> {53}, DEFAULT_SIZE |-> {54}, GRANULARITY |-> {55},
      LIMIT_0_15 |-> 0..15, LIMIT_16_19 |-> 48..51, BASE_0_23 |-> 16..39,
      BASE_24_31 |-> 56..63 ]

\* the bits bitflags! knows; from_bits_truncate drops the others
from_bits_truncate(bits) ==
    bits \cap UNION { SegmentDescriptorFlags[flag] : flag \in DOMAIN SegmentDescriptorFlags }

COMMON ==
    from_bits_truncate(UNION { SegmentDescriptorFlags[flag] :
                                  flag \in {"USER_SEGMENT", "PRESENT", "WRITABLE", "ACCESSED",
                                            "LIMIT_0_15", "LIMIT_16_19", "GRANULARITY"} })

KERNEL_DATA == from_bits_truncate(COMMON \cup SegmentDescriptorFlags.DEFAULT_SIZE)

KERNEL_CODE64 == from_bits_truncate(COMMON \cup SegmentDescriptorFlags.EXECUTABLE
                                           \cup SegmentDescriptorFlags.LONG_MODE)

USER_DATA == from_bits_truncate(KERNEL_DATA \cup SegmentDescriptorFlags.DPL_RING_3)

USER_CODE64 == from_bits_truncate(KERNEL_CODE64 \cup SegmentDescriptorFlags.DPL_RING_3)

\* SegmentDescriptor::UserSegment and ::SystemSegment; `made_by` names the constructor
UserSegment(made_by, value) ==
    [kind |-> "user", made_by |-> made_by, low |-> value, high |-> {}]

SystemSegment(made_by, val_low, val_hi) ==
    [kind |-> "system", made_by |-> made_by, low |-> val_low, high |-> val_hi]

\* a variant of dpl that shifts one bit short
dpl_shifted(entry) == as_u16(shr(entry.low \cap SegmentDescriptorFlags.DPL_RING_3, 44))

\* SegmentDescriptor::dpl
dpl(entry) == as_u16(shr(entry.low \cap SegmentDescriptorFlags.DPL_RING_3, 45))

kernel_code_segment == UserSegment("kernel_code_segment", KERNEL_CODE64)

kernel_data_segment == UserSegment("kernel_data_segment", KERNEL_DATA)

user_data_segment == UserSegment("user_data_segment", USER_DATA)

user_code_segment == UserSegment("user_code_segment", USER_CODE64)

\* size_of::<TaskStateSegment>(): 4 + 3 * 8 + 8 + 7 * 8 + 8 + 2 + 2 bytes, packed(4)
SizeOfTaskStateSegment == 104

\* SegmentDescriptor::tss_segment, for a TaskStateSegment at address ptr
tss_segment(ptr) ==
    LET low0 == SegmentDescriptorFlags.PRESENT
        low1 == set_bits(low0, 16, 40, get_bits(ptr, 0, 24))
        low2 == set_bits(low1, 56, 64, get_bits(ptr, 24, 32))
        low3 == set_bits(low2, 0, 16, from_u16(SizeOfTaskStateSegment - 1))
        low4 == set_bits(low3, 40, 44, from_u16(9))
        high == set_bits({}, 0, 32, get_bits(ptr, 32, 64))
    IN  SystemSegment("tss_segment", low4, high)

\* SegmentSelector::new, index and rpl
SegmentSelector(index, rpl) == index * 8 + rpl
selector_index(sel) == sel \div 8
selector_rpl(sel) == sel % 4

\* the length of GlobalDescriptorTable.table
GdtSlots == 8

\* GlobalDescriptorTable::new
GlobalDescriptorTableNew == [table |-> [i \in 0..(GdtSlots - 1) |-> {}], len |-> 1]

\* GlobalDescriptorTable::push: the table afterwards (the index is the old len)
push(g, value) == [table |-> [g.table EXCEPT ![g.len] = value], len |-> g.len + 1]

\* a variant of add_entry_panics that asks one slot of a system segment too
add_entry_panics_one_slot(g, entry) == g.len > GdtSlots - 1

\* the capacity checks of add_entry
add_entry_panics(g, entry) ==
    IF entry.kind = "user" THEN g.len > GdtSlots - 1 ELSE g.len > GdtSlots - 2

\* a variant of add_entry_index that names the slot after the one written first
add_entry_index_next(g, entry) == g.len + 1

\* the index add_entry passes to SegmentSelector::new
add_entry_index(g, entry) == g.len

\* GlobalDescriptorTable::add_entry: the table afterwards, the selector, the panic
add_entry(g, entry) ==
    IF add_entry_panics(g, entry)
    THEN [gdt |-> g, ret |-> None, panic |-> "too many entries in GDT"]
    ELSE [gdt |-> IF entry.kind = "user" THEN push(g, entry.low)
                  ELSE push(push(g, entry.low), entry.high),
          ret |-> Some(SegmentSelector(add_entry_index(g, entry), dpl(entry))),
          panic |-> NoPanic]

\* no add_entry call yet, no selector loaded
NoSegs == [op |-> "none"]

(* Addresses a TaskStateSegment may stand at: every bit set, and one with  *)
(* bits in each of the three fields tss_segment cuts the address into.     *)
TssAddresses == { 0..63, {12, 21, 30, 39} }

\* the descriptors the constructors of SegmentDescriptor build
Descriptors ==
    { kernel_code_segment, kernel_data_segment, user_code_segment, user_data_segment }
        \cup { tss_segment(ptr) : ptr \in TssAddresses }

\* gdt.add_entry(entry)
AddEntry(entry) ==
    /\ panicked = NoPanic
    /\ segs.op \in {"none", "add_entry"}
    /\ LET r == add_entry(gdt, entry)
       IN  /\ gdt' = r.gdt
           /\ panicked' = r.panic
           /\ segs' = [op |-> "add_entry", entry |-> entry, ret |-> r.ret]
    /\ UNCHANGED <<allocVars, boot, cpuVars, restVars>>

\* the add_entry calls of cpu::init, one after the other, from table g
RECURSIVE AddEntries(_, _, _)
AddEntries(g, entries, rets) ==
    IF entries = <<>> THEN [gdt |-> g, rets |-> rets, panic |-> NoPanic]
    ELSE LET r == add_entry(g, Head(entries))
         IN  IF r.panic # NoPanic
             THEN [gdt |-> r.gdt, rets |-> rets, panic |-> r.panic]
             ELSE AddEntries(r.gdt, Tail(entries), Append(rets, r.ret[1]))

(* The descriptor part of a per-CPU init: a new table, the add_entry calls *)
(* in order, the table loaded, and the selectors of the first, the second  *)
(* and the last call written to the code segment, data segment and task    *)
(* registers.                                                              *)
InitGdt(variant, entries, ptr) ==
    /\ panicked = NoPanic
    /\ segs = NoSegs
    /\ LET r == AddEntries(GlobalDescriptorTableNew, entries, <<>>)
       IN  /\ gdt' = r.gdt
           /\ panicked' = r.panic
           /\ segs' = IF r.panic # NoPanic THEN [op |-> "init_panic", variant |-> variant]
                      ELSE [op |-> "init", variant |-> variant, tss |-> ptr,
                            cs |-> r.rets[1], ds |-> r.rets[2], tr |-> r.rets[Len(r.rets)]]
    /\ UNCHANGED <<allocVars, boot, cpuVars, restVars>>

\* cpu::init of arch.rs, for a TaskStateSegment at address ptr
CpuInitGdt(ptr) ==
    InitGdt("arch.rs",
            << kernel_code_segment, kernel_data_segment,
               user_code_segment, user_data_segment, tss_segment(ptr) >>,
            ptr)

\* init of cpu.rs, for a TaskStateSegment at address ptr
CpuRsInitGdt(ptr) ==
    InitGdt("cpu.rs",
            << kernel_code_segment, kernel_data_segment, tss_segment(ptr) >>,
            ptr)

----------------------------------------------------------------------------
(* The trap pipeline, the page table and the kernel heap before the kernel *)
(* has touched them.                                                       *)

\* no snapshot runs yet
PoweredOff == [trap |-> "off", panic |-> "off"]

\* the IRQ lines of the two cascaded controllers: 0..7 master, 8..15 slave
IrqLines == 0..15

(* The controllers before the kernel programs them: every line masked, no  *)
(* initialization sequence under way, no vector offset, PICS unlocked.     *)
PicReset ==
    [ imr |-> IrqLines,
      icw |-> [master |-> 0, slave |-> 0],
      programmed |-> [master |-> FALSE, slave |-> FALSE],
      offset |-> [master |-> 0, slave |-> 0],
      locked |-> FALSE ]

\* the handler every slot of IRQ_VECTORS starts with: |_| {}
DefaultHandler == "default"

\* IRQ_VECTORS: Mutex::new([|_| {}; 16])
IrqVectorsNew == [table |-> [i \in IrqLines |-> DefaultHandler], locked |-> FALSE]

\* no trap is being handled
NoTrap == [raised |-> -1, vector |-> -1, step |-> "idle", saved_if |-> FALSE, trace |-> <<>>,
           outcome |-> "none"]

\* no register_irq_handler call is under way
NoRegister == [step |-> "idle", irq |-> 0, vector |-> DefaultHandler, found_if |-> FALSE,
               saved_if |-> FALSE, before |-> IrqVectorsNew.table, calls |-> 0]

\* the const parameter ORDER of BuddyAllocator: free lists 0 .. ORDER - 1
ORDER == 6

\* BuddyAllocator::new
BuddyAllocatorNew ==
    [ free_lists |-> [i \in 0..(ORDER - 1) |-> <<>>],
      allocated |-> 0, requested |-> 0, total |-> 0 ]

----------------------------------------------------------------------------
(* The allocator's operations. *)

Call(op, arg, ret) == [op |-> op, arg |-> arg, ret |-> ret]

Init ==
    /\ regions = PhysicalAllocatorNew
    /\ live = EmptyBag
    /\ last = Call("new", <<>>, None)
    /\ panicked = NoPanic
    /\ cpu = CpuInit
    /\ locks = [l \in Locks |-> SpinlockNew]
    /\ pc = Idle
    /\ raw_depth = 0
    /\ scope = [l \in Locks |-> FreeScope]
    /\ nest = [flag0 |-> FALSE, peak |-> 0, acq_flag |-> FALSE, acq_raw |-> 0]
    /\ done = Done("init", 0, "none", 0, 0)
    /\ boot = NotBooted
    /\ gdt = GlobalDescriptorTableNew
    /\ segs = NoSegs
    /\ build = PoweredOff
    /\ boot_pc = 0
    /\ idt = "bootloader"
    /\ pic = PicReset
    /\ irq = [mask |-> IrqLines, enabled |-> {}]
    /\ vectors = IrqVectorsNew
    /\ isr = NoTrap
    /\ reg = NoRegister
    /\ out = [pc |-> 0, trace |-> <<>>]
    /\ pgtbl = {}
    /\ mapped = [op |-> "none"]
    /\ heap = BuddyAllocatorNew
    /\ heapcall = [op |-> "new"]
    /\ thr = <<Flow("main", 0, FALSE)>>
    /\ pte = [entry |-> {}, op |-> "new", addr |-> {}, flags |-> {}, before |-> {}]
    /\ dtr = [op |-> "none"]
    /\ con = [op |-> "none"]
    /\ bump = [op |-> "none"]
    /\ ring = [op |-> "none"]

\* PhysicalAllocator::reserve(start, size, block_size)
ReserveCall(start, size, block_size) ==
    /\ panicked = NoPanic
    /\ LET slot == FirstEmptySlot(regions)
       IN  IF slot = 0
           THEN /\ panicked' = "Too many memory regions have been reserved."
                /\ UNCHANGED regions
           ELSE IF NewPanics(start, size, block_size)
           THEN /\ panicked' = "attempt to subtract with overflow"
                /\ UNCHANGED regions
           ELSE /\ regions' = [regions EXCEPT
                                 ![slot] = Some(PhysicalMemoryBitmapNew(start, size, block_size))]
                /\ UNCHANGED panicked
    /\ last' = Call("reserve", <<start, size, block_size>>, None)
    /\ UNCHANGED <<live, cpuVars, gdtVars, restVars>>

(* reserve(start, size, block_size), for an area apart from the extents    *)
(* reserved so far (the reservation protocol of memory::init).             *)
Reserve(start, size, block_size) ==
    /\ NumExtents(regions) < MaxExtents
    /\ DisjointFromExtents(regions, start, size)
    /\ ReserveCall(start, size, block_size)
    /\ UNCHANGED boot

(* reserve() on a table that is filling up: the caller walks its areas in *)
(* the order of their addresses, leaving some out.                         *)
ReserveNext(i) ==
    /\ \A e \in Extents(regions) : e.start_addr + e.size <= TableArea(i)[1]
    /\ ReserveCall(TableArea(i)[1], TableArea(i)[2], TableArea(i)[3])
    /\ UNCHANGED boot

\* allocate(size); the caller keeps the region returned
Allocate(size) ==
    /\ panicked = NoPanic
    /\ BagCardinality(live) < MaxLive
    /\ LET r == PhysicalAllocatorAllocate(regions, size)
       IN  /\ regions' = r.regions
           /\ live' = IF r.ret = None THEN live ELSE live (+) SetToBag({r.ret[1]})
           /\ last' = Call("allocate", <<size>>, r.ret)
    /\ UNCHANGED <<panicked, boot, cpuVars, gdtVars, restVars>>

(* Frames the caller does not hold and that touch no region it holds: one *)
(* block of an extent, of those that hold its bitmap or of those never     *)
(* allocated, or the region it has just given back (a double free).        *)
UnheldFrames ==
    LET block == UNION { { PhysRegion(e.start_addr + b * e.block_size, e.block_size) :
                              b \in 0..(total_blocks(e) - 1) } : e \in Extents(regions) }
        freed == IF last.op = "deallocate" THEN {last.arg[1]} ELSE {}
    IN  { f \in block \cup freed : \A r \in LiveSet : ~intersects(f, r) }

(* deallocate(frame), of a region the caller holds or of an unheld frame   *)
Deallocate(frame) ==
    /\ panicked = NoPanic
    /\ LET r == PhysicalAllocatorDeallocate(regions, frame)
       IN  /\ regions' = r.regions
           /\ panicked' = r.panic
           /\ live' = IF r.panic = NoPanic /\ BagIn(frame, live)
                      THEN live (-) SetToBag({frame})
                      ELSE live
    /\ last' = Call("deallocate", <<frame>>, None)
    /\ UNCHANGED <<boot, cpuVars, gdtVars, restVars>>

(* memory::init up to its reservation loop: the kernel image of the       *)
(* linker, the multiboot structure with or without a memory map            *)
MemoryInit(kernel, has_map, map) ==
    /\ panicked = NoPanic
    /\ ~boot.started
    /\ regions = PhysicalAllocatorNew
    /\ boot' = [kernel |-> kernel, mmap |-> map, walked |-> 0, started |-> TRUE]
    /\ panicked' = IF has_map THEN NoPanic
                   ELSE "multiboot structure did not have memory map"
    /\ UNCHANGED <<allocVars, cpuVars, gdtVars, restVars>>

\* one turn of the reservation loop of memory::init, on the next area of the map
InitArea ==
    /\ panicked = NoPanic
    /\ boot.started
    /\ boot.walked < Len(boot.mmap)
    /\ LET area == boot.mmap[boot.walked + 1]
           frame == AreaFrame(area)
       IN  IF area.area_type = Invalid
           THEN /\ boot' = [boot EXCEPT !.walked = Len(boot.mmap)]
                /\ UNCHANGED <<allocVars, panicked, cpuVars, gdtVars, restVars>>
           ELSE /\ boot' = [boot EXCEPT !.walked = @ + 1]
                /\ IF area.area_type # Available
                   THEN UNCHANGED <<allocVars, panicked, cpuVars, gdtVars, restVars>>
                   ELSE IF ReserveSizePanics(frame, boot.kernel)
                   THEN /\ panicked' = "attempt to subtract with overflow"
                        /\ UNCHANGED <<allocVars, cpuVars, gdtVars, restVars>>
                   ELSE IF frame.start_address < boot.kernel.start_address
                   THEN UNCHANGED <<allocVars, panicked, cpuVars, gdtVars, restVars>>
                   ELSE ReserveCall(ReserveStart(frame, boot.kernel),
                                    ReserveSize(frame, boot.kernel), PAGE)

\* allocate(size) once memory::init has walked the whole map
AllocateAfterInit(size) ==
    /\ boot.started
    /\ boot.walked = Len(boot.mmap)
    /\ Allocate(size)

Next ==
    \/ \E area \in ReserveAreas : Reserve(area[1], area[2], area[3])
    \/ \E size \in 0..MaxAllocSize : Allocate(size)
    \/ \E frame \in LiveSet \cup UnheldFrames : Deallocate(frame)

vars == <<regions, live, last, panicked, cpu, locks, pc, raw_depth, scope, nest, done,
          boot, gdt, segs, restVars>>

Spec == Init /\ [][Next]_vars

NextCpu ==
    \/ EnableInterrupts
    \/ PushInterruptOff
    \/ PopInterruptOff
    \/ \E l \in Locks, how \in Hows : AcquirePush(l, how)
    \/ AcquireAssert
    \/ AcquireXchg
    \/ AcquireOwner
    \/ \E l \in Locks : ReleaseAssert(l)
    \/ ReleaseClear
    \/ ReleaseXchg
    \/ ReleasePop

SpecCpu == Init /\ [][NextCpu]_vars

NextMisuse ==
    \/ NextCpu
    \/ EnableInScope

SpecMisuse == Init /\ [][NextMisuse]_vars

NextGdt ==
    \/ \E entry \in Descriptors : AddEntry(entry)
    \/ \E ptr \in TssAddresses : CpuInitGdt(ptr)
    \/ \E ptr \in TssAddresses : CpuRsInitGdt(ptr)

SpecGdt == Init /\ [][NextGdt]_vars

NextInit ==
    \/ \E kernel \in KernelImages, has_map \in BOOLEAN, map \in MemoryMaps :
          MemoryInit(kernel, has_map, map)
    \/ InitArea
    \/ \E size \in {1, PAGE + 1} : AllocateAfterInit(size)

SpecInit == Init /\ [][NextInit]_vars

NextTable == \E i \in 0..(MaxTableAreas - 1) : ReserveNext(i)

SpecTable == Init /\ [][NextTable]_vars

----------------------------------------------------------------------------
(* What the claims speak of, stated apart from the allocator's own scans.  *)

\* the half-open ranges [a1, a2) and [b1, b2) share an address
Overlap(a1, a2, b1, b2) == a1 < b2 /\ b1 < a2

\* the region lies inside the extent
RegionIn(r, e) == e.start_addr <= r.start_address /\ end_address(r) <= e.start_addr + e.size

\* block j of extent e lies inside a region the caller holds
BlockHeld(e, j) ==
    \E r \in LiveSet :
        Overlap(r.start_address, end_address(r),
                e.start_addr + j * e.block_size, e.start_addr + (j + 1) * e.block_size)

\* the blocks of extent e inside the regions the caller holds
HeldBlocks(e) == Cardinality({j \in 0..(total_blocks(e) - 1) : BlockHeld(e, j)})

\* block j of extent e is free: not a block of the bitmap, not held by the caller
BlockFree(e, j) == j >= e.reserved /\ j < total_blocks(e) /\ ~BlockHeld(e, j)

\* extent e has a run of k consecutive free blocks
HasFreeRun(e, k) ==
    \E s \in 0..(total_blocks(e) - k) : \A j \in s..(s + k - 1) : BlockFree(e, j)

\* the zero bits of e's bitmap outside the reserved prefix
ZeroBits(e) ==
    Cardinality({i \in e.reserved..(bitmap_end(e) - 1) : ~BlockIsSet(e.bitmap, i)})

\* the bits [0, reserved) of e's bitmap are set
PrefixSet(e) ==
    \A i \in 0..(e.reserved - 1) : i < bitmap_end(e) /\ BlockIsSet(e.bitmap, i)

----------------------------------------------------------------------------
(* C1 (P1): no two regions the caller holds overlap, none is held twice,   *)
(* and none overlaps the blocks that hold an extent's bitmap.              *)
C1_NoLiveOverlap ==
    /\ \A r \in LiveSet : CopiesIn(r, live) = 1
    /\ \A r1, r2 \in LiveSet :
          r1 # r2 => ~Overlap(r1.start_address, end_address(r1),
                              r2.start_address, end_address(r2))
    /\ \A r \in LiveSet : \A e \in Extents(regions) :
          ~Overlap(r.start_address, end_address(r),
                   e.start_addr, e.start_addr + e.reserved * e.block_size)

\* two regions are held, the later one allocated below the earlier one, in blocks
\* that an earlier deallocate gave back
C1_Witness ==
    /\ panicked = NoPanic
    /\ BagCardinality(live) = 2
    /\ last.op = "allocate" /\ last.ret # None
    /\ \E r \in LiveSet : last.ret[1].start_address < r.start_address

(* C2 (P2, conservation): each extent's bitmap and free count are those of *)
(* the fresh extent with the blocks of the held regions taken out.  Once   *)
(* every region returned by allocate has been given back, in whatever      *)
(* order, each bitmap and bytes_remaining() are what they were before.     *)
C2_Conservation ==
    panicked = NoPanic =>
        /\ \A e \in Extents(regions) :
              /\ \A i \in 0..(bitmap_end(e) - 1) :
                    BlockIsSet(e.bitmap, i) <=> (i < e.reserved \/ BlockHeld(e, i))
              /\ e.blocks_remaining = (total_blocks(e) - e.reserved) - HeldBlocks(e)
        /\ live = EmptyBag =>
              PhysicalAllocatorBytesRemaining(regions)
                  = PhysicalAllocatorBytesRemaining(
                       [k \in Slots |->
                           IF regions[k] = None THEN None
                           ELSE Some(PhysicalMemoryBitmapNew(regions[k][1].start_addr,
                                                             regions[k][1].size,
                                                             regions[k][1].block_size))])

\* every region has been given back, the last one a region that was allocated
\* after another one, which was given back before it
C2_Witness ==
    /\ panicked = NoPanic
    /\ live = EmptyBag
    /\ last.op = "deallocate"
    /\ \E e \in Extents(regions) :
          /\ RegionIn(last.arg[1], e)
          /\ last.arg[1].start_address > e.start_addr + e.reserved * e.block_size

(* C7 (P4): a frame whose first block lies below an extent's reserved      *)
(* count is never deallocated: try_deallocate returns false and changes    *)
(* nothing, deallocate panics and changes nothing, and the bits            *)
(* [0, reserved) stay set.                                                 *)
C7_ReservedPrefixImmutable ==
    \A e \in Extents(regions) :
        /\ PrefixSet(e)
        /\ \A offset \in 0..(e.reserved * e.block_size - 1) : \A size \in 1..(e.size + 1) :
              LET frame == PhysRegion(e.start_addr + offset, size)
                  whole == PhysicalAllocatorDeallocate(regions, frame)
              IN  /\ try_deallocate(e, frame) = [ext |-> e, ok |-> FALSE, panic |-> NoPanic]
                  /\ whole.panic # NoPanic
                  /\ whole.regions = regions

\* deallocate was called on a block of an extent's bitmap and panicked
C7_Witness ==
    /\ panicked = "Could not deallocate given frame."
    /\ last.op = "deallocate"
    /\ \E e \in Extents(regions) :
          /\ e.reserved > 0
          /\ e.start_addr <= last.arg[1].start_address
          /\ last.arg[1].start_address < e.start_addr + e.reserved * e.block_size

(* C8 (P3): a region returned by allocate(size) starts on a multiple of    *)
(* its extent's block size and its size is a positive multiple of the      *)
(* block size, at least `size`.                                            *)
C8_AlignedWholeBlocks ==
    /\ (last.op = "allocate" /\ last.ret # None) =>
          LET r == last.ret[1]
          IN  /\ r.size >= last.arg[1]
              /\ \E e \in Extents(regions) : RegionIn(r, e)
    /\ \A r \in LiveSet : \A e \in Extents(regions) :
          RegionIn(r, e) =>
              /\ r.start_address % e.block_size = 0
              /\ r.size % e.block_size = 0
              /\ r.size > 0

\* allocate returned a region for a size that is no multiple of the block size
C8_Witness ==
    /\ last.op = "allocate" /\ last.ret # None
    /\ \E e \in Extents(regions) :
          /\ RegionIn(last.ret[1], e)
          /\ last.arg[1] % e.block_size # 0
          /\ last.ret[1].size > last.arg[1]

(* C9: for size >= 1, allocate(size) returns None exactly when no extent   *)
(* has a run of ceil(size / block_size) consecutive free blocks; a None    *)
(* changes nothing; a region returned is never shorter than `size`.        *)
C9_NoneIffNoFreeRun ==
    panicked = NoPanic =>
        \A size \in 1..(2 * MaxAllocSize) :
            LET r == PhysicalAllocatorAllocate(regions, size)
            IN  /\ (r.ret = None) <=>
                      ~\E e \in Extents(regions) : HasFreeRun(e, bytes_to_blocks(e, size))
                /\ r.ret = None => r.regions = regions
                /\ r.ret # None => r.ret[1].size >= size

(* What does hold of allocate() for size >= 1: it returns None exactly     *)
(* when no extent's bitmap has a run of ceil(size / block_size) zero bits  *)
(* outside the reserved prefix, and then changes nothing.                  *)
HasZeroBitRun(e, k) ==
    \E s \in e.reserved..(bitmap_end(e) - k) :
        \A j \in s..(s + k - 1) : ~BlockIsSet(e.bitmap, j)

NoneIffNoZeroBitRun ==
    panicked = NoPanic =>
        \A size \in 1..(2 * MaxAllocSize) :
            LET r == PhysicalAllocatorAllocate(regions, size)
            IN  /\ (r.ret = None) <=>
                      ~\E e \in Extents(regions) : HasZeroBitRun(e, bytes_to_blocks(e, size))
                /\ r.ret = None => r.regions = regions
                /\ r.ret # None => r.ret[1].size >= size

(* C10: in every extent the bits [0, reserved) are set and                 *)
(* blocks_remaining is the number of zero bits of the bitmap outside the   *)
(* reserved prefix.                                                        *)
C10_BitmapAccounting ==
    panicked = NoPanic =>
        \A e \in Extents(regions) : PrefixSet(e) /\ e.blocks_remaining = ZeroBits(e)

----------------------------------------------------------------------------
(* Interrupt-off nesting and the locks built on it. *)

\* the last call returned, no call is under way, and nothing has panicked
Returned(op) == panicked = NoPanic /\ pc = Idle /\ done.op = op

(* C3 (P5, nesting balance): when the pop that closes the outermost scope  *)
(* has returned, the interrupt flag equals the flag found just before the  *)
(* push that opened it, and the nesting counter is 0 again.                *)
C3_NestingBalance ==
    (Returned("pop") /\ Depth = 0) =>
        (cpu.iflag = nest.flag0 /\ cpu.noff = 0)

(* Interrupts were enabled before the outermost push, the scopes nested at *)
(* least two deep, and the outermost pop has enabled them again.           *)
C3_Witness ==
    /\ Returned("pop")
    /\ Depth = 0
    /\ nest.flag0
    /\ nest.peak >= 2
    /\ cpu.iflag
    /\ cpu.noff = 0

(* C4: an inner scope never re-enables interrupts for an outer one: while  *)
(* the nesting counter is above 0 interrupts are disabled, and the counter *)
(* is the number of scopes open.                                           *)
C4_InnerScopeKeepsOff ==
    /\ cpu.noff > 0 => ~cpu.iflag
    /\ panicked = NoPanic => cpu.noff = Depth

(* Two pushes and one pop, begun with interrupts enabled: the counter is 1 *)
(* and interrupts are still disabled.                                      *)
C4_Witness ==
    /\ Returned("pop")
    /\ OpenScopes = {}
    /\ raw_depth = 1
    /\ nest.flag0
    /\ nest.peak = 2
    /\ cpu.noff = 1
    /\ ~cpu.iflag

(* C5: interrupts are disabled while any Spinlock is held, and already     *)
(* before the exchange that takes it; when the last lock held has been     *)
(* released, the interrupt flag is the one found just before the first     *)
(* acquire, in whatever order the locks were released.                     *)
C5_LockHoldsInterruptsOff ==
    /\ (\E l \in Locks : locks[l].locked # 0) => ~cpu.iflag
    /\ (pc.op = "acquire" /\ pc.step \in {"assert", "xchg", "owner"}) => ~cpu.iflag
    /\ (Returned("release") /\ OpenScopes = {} /\ raw_depth = nest.acq_raw) =>
            cpu.iflag = nest.acq_flag

(* Two locks taken with interrupts enabled and released in the order they  *)
(* were taken: the release of the last one has enabled interrupts again.   *)
C5_Witness ==
    /\ Returned("release")
    /\ OpenScopes = {}
    /\ raw_depth = nest.acq_raw
    /\ nest.acq_flag
    /\ cpu.iflag
    /\ done.depth_before > Depth

----------------------------------------------------------------------------
(* Deallocation of frames the caller does not hold, and across extents.    *)

(* the frames of extent e that start on a block outside the reserved       *)
(* prefix, end inside e, and have a free block                             *)
FramesWithFreeBlock(e) ==
    { PhysRegion(e.start_addr + b * e.block_size, size) :
        <<b, size>> \in { bs \in (e.reserved..(total_blocks(e) - 1)) \X (1..e.size) :
            /\ bs[1] * e.block_size + bs[2] <= e.size
            /\ \E j \in bs[1]..(bs[1] + (next_multiple_of(bs[2], e.block_size) \div e.block_size) - 1) :
                  BlockFree(e, j) } }

(* deallocate of a frame with a free block panics, with whatever message,  *)
(* and bytes_remaining() does not grow                                     *)
DoubleFreeHalts ==
    \A e \in Extents(regions) : \A frame \in FramesWithFreeBlock(e) :
        LET whole == PhysicalAllocatorDeallocate(regions, frame)
        IN  /\ whole.panic # NoPanic
            /\ PhysicalAllocatorBytesRemaining(whole.regions)
                  <= PhysicalAllocatorBytesRemaining(regions)

\* the blocks of the frame all have a bit in e's bitmap
InsideBitmap(e, frame) ==
    (frame.start_address - e.start_addr) \div e.block_size
        + next_multiple_of(frame.size, e.block_size) \div e.block_size <= bitmap_end(e)

(* where no extent starts above the frame's extent, deallocate of a frame  *)
(* with a free block, all of whose blocks have a bit in the bitmap, fails  *)
(* the assertion of try_deallocate                                         *)
DoubleFreeAssertsInsideBitmap ==
    \A e \in Extents(regions) : \A frame \in FramesWithFreeBlock(e) :
        (InsideBitmap(e, frame)
         /\ \A x \in Extents(regions) : x.start_addr <= e.start_addr) =>
            PhysicalAllocatorDeallocate(regions, frame).panic
                = "Deallocating block that was not held before."

(* C11: deallocate of a region inside an extent, one of whose blocks is    *)
(* free (given back already, or never allocated), panics with              *)
(* "Deallocating block that was not held before." and bytes_remaining()    *)
(* does not grow.                                                          *)
C11_DoubleFreePanics ==
    \A e \in Extents(regions) : \A frame \in FramesWithFreeBlock(e) :
        LET whole == PhysicalAllocatorDeallocate(regions, frame)
        IN  /\ whole.panic = "Deallocating block that was not held before."
            /\ PhysicalAllocatorBytesRemaining(whole.regions)
                  <= PhysicalAllocatorBytesRemaining(regions)

\* block i of extent e lies inside the region r
BlockOf(e, i, r) ==
    Overlap(r.start_address, end_address(r),
            e.start_addr + i * e.block_size, e.start_addr + (i + 1) * e.block_size)

(* deallocate(r) returns, and in the table it leaves the extent r lies in  *)
(* has exactly r's bits cleared and its free count raised by r's blocks,   *)
(* and every other extent is as before                                     *)
DeallocateFindsOwner(r) ==
    LET whole == PhysicalAllocatorDeallocate(regions, r)
    IN  /\ whole.panic = NoPanic
        /\ \A k \in Slots : regions[k] # None =>
              LET e == regions[k][1]
                  after == whole.regions[k][1]
              IN  IF RegionIn(r, e)
                  THEN /\ after.blocks_remaining = e.blocks_remaining + r.size \div e.block_size
                       /\ \A i \in 0..(bitmap_end(e) - 1) :
                             BlockIsSet(after.bitmap, i)
                                 <=> (BlockIsSet(e.bitmap, i) /\ ~BlockOf(e, i, r))
                  ELSE after = e

\* the extents stand in the table in the order of their start addresses
SlotsAscending ==
    \A j, k \in Slots :
        (j < k /\ regions[j] # None /\ regions[k] # None) =>
            regions[j][1].start_addr < regions[k][1].start_addr

\* deallocate finds the owning extent when the table is in address order
DeallocateFindsOwnerAscending ==
    (panicked = NoPanic /\ SlotsAscending) => \A r \in LiveSet : DeallocateFindsOwner(r)

(* C12: with pairwise-disjoint extents reserved in any order of their      *)
(* start addresses, deallocate(r) of a region r the caller holds returns   *)
(* without a panic, clears exactly r's bits in the extent r came from,     *)
(* restores that extent's free count and leaves every other extent as it   *)
(* was.                                                                    *)
C12_DeallocateLocatesExtent ==
    panicked = NoPanic => \A r \in LiveSet : DeallocateFindsOwner(r)

----------------------------------------------------------------------------
(* C13: each of the first MAX_PHYS_REGIONS reserve calls on a new          *)
(* allocator fills the first empty slot and leaves the extents registered  *)
(* before as they were; the next reserve panics ("Too many memory          *)
(* regions") and leaves the whole table as it was.                         *)
C13_ReserveFillsSlots ==
    [][ LET n == NumExtents(regions)
        IN  IF n < MAX_PHYS_REGIONS
            THEN /\ panicked' = NoPanic
                 /\ regions'[n + 1] # None
                 /\ \A k \in Slots \ {n + 1} : regions'[k] = regions[k]
                 /\ \A k \in Slots : regions[k] # None <=> k <= n
            ELSE /\ panicked' = "Too many memory regions have been reserved."
                 /\ regions' = regions ]_vars

\* the 17th reserve has panicked, the 16 slots hold the 16 extents reserved before
C13_Witness ==
    /\ panicked = "Too many memory regions have been reserved."
    /\ last.op = "reserve"
    /\ NumExtents(regions) = MAX_PHYS_REGIONS
    /\ \A k \in Slots : regions[k] # None
    /\ \A e \in Extents(regions) : e.start_addr # last.arg[1]

----------------------------------------------------------------------------
(* The extents memory::init registers. *)

\* the extent e and the kernel image share an address
InKernelImage(start, end) ==
    Overlap(start, end, boot.kernel.start_address, end_address(boot.kernel))

\* the Available areas of the boot memory map
AvailableAreas == { i \in 1..Len(boot.mmap) : boot.mmap[i].area_type = Available }

\* the Available areas of the map share no address, as [addr, addr + len)
AvailableAreasDisjoint ==
    \A i, j \in AvailableAreas :
        i # j => ~Overlap(boot.mmap[i].addr, boot.mmap[i].addr + boot.mmap[i].len,
                          boot.mmap[j].addr, boot.mmap[j].addr + boot.mmap[j].len)

(* C14: whatever the boot memory map, no extent memory::init registers     *)
(* overlaps [__kernel_start, __kernel_end); hence no region allocate       *)
(* returns, and no block that holds a bitmap, lies in the kernel image.    *)
C14_KernelImageReserved ==
    boot.started =>
        /\ \A e \in Extents(regions) : ~InKernelImage(e.start_addr, e.start_addr + e.size)
        /\ \A r \in LiveSet : ~InKernelImage(r.start_address, end_address(r))

(* init has registered an extent for an area that begins with the kernel   *)
(* image, right above the image, and allocate has returned its first free  *)
(* block.                                                                  *)
C14_Witness ==
    /\ panicked = NoPanic
    /\ boot.started
    /\ \E i \in AvailableAreas : boot.mmap[i].addr = boot.kernel.start_address
    /\ \E e \in Extents(regions) :
          /\ e.start_addr = align_up(end_address(boot.kernel), PAGE)
          /\ \E r \in LiveSet : r.start_address = e.start_addr + e.reserved * PAGE

(* C15: when the Available areas of the boot memory map are pairwise       *)
(* disjoint, aligned to 4 KiB or not, the extents memory::init registers   *)
(* are pairwise disjoint.                                                  *)
C15_ExtentsDisjoint ==
    (boot.started /\ AvailableAreasDisjoint) =>
        \A j, k \in Slots :
            (j # k /\ regions[j] # None /\ regions[k] # None) =>
                ~Overlap(regions[j][1].start_addr,
                         regions[j][1].start_addr + regions[j][1].size,
                         regions[k][1].start_addr,
                         regions[k][1].start_addr + regions[k][1].size)

(* Two Available areas that touch at an address off the page boundary have *)
(* both been registered: the extent of the lower one ends where the extent *)
(* of the upper one starts.                                                *)
C15_Witness ==
    /\ panicked = NoPanic
    /\ boot.started
    /\ AvailableAreasDisjoint
    /\ boot.walked = Len(boot.mmap)
    /\ \E i, j \in AvailableAreas :
          /\ boot.mmap[i].addr + boot.mmap[i].len = boot.mmap[j].addr
          /\ boot.mmap[j].addr % PAGE # 0
    /\ \E j, k \in Slots :
          /\ j # k /\ regions[j] # None /\ regions[k] # None
          /\ regions[j][1].size > 0 /\ regions[k][1].size > 0
          /\ regions[j][1].start_addr + regions[j][1].size = regions[k][1].start_addr

----------------------------------------------------------------------------
(* C16: pop_interrupt_off called while interrupts are enabled, or while    *)
(* the nesting counter is 0, panics and leaves the counter and the         *)
(* interrupt flag as they were; any other call takes the counter down by   *)
(* one.  The counter never goes below 0.                                   *)
C16_PopRejectsViolations ==
    /\ [](cpu.noff >= 0)
    /\ [][ PopInterruptOff =>
             IF cpu.iflag \/ cpu.noff = 0
             THEN panicked' # NoPanic /\ cpu' = cpu
             ELSE panicked' = NoPanic /\ cpu'.noff = cpu.noff - 1 ]_vars

(* pop_interrupt_off was called inside a scope in which interrupts had     *)
(* been enabled, and panicked: the counter is still above 0 and the flag   *)
(* still set.                                                              *)
C16_Witness ==
    /\ panicked = "pop_intr(): interrupts should not be enabled"
    /\ done.op = "pop"
    /\ cpu.noff >= 1
    /\ cpu.iflag

----------------------------------------------------------------------------
(* The GlobalDescriptorTable and the descriptors. *)

\* the step is an add_entry call
AddEntryStep == \E entry \in Descriptors : AddEntry(entry)

\* the slots the descriptor needs: 1 for a user segment, 2 for a system segment
SlotsNeeded(entry) == IF entry.kind = "user" THEN 1 ELSE 2

\* the privilege level in bits 45 and 46 of a descriptor's low word
PrivilegeBits(low) == (IF 45 \in low THEN 1 ELSE 0) + (IF 46 \in low THEN 2 ELSE 0)

(* C17 (P7): add_entry panics exactly when fewer slots are free than the   *)
(* descriptor needs; a call that panics writes nothing, a system segment   *)
(* is stored with both words or not at all, and the length never exceeds   *)
(* the 8 slots.                                                            *)
C17_GdtCapacity ==
    /\ [](gdt.len <= GdtSlots)
    /\ [][ AddEntryStep =>
             LET need == SlotsNeeded(segs'.entry)
                 free == GdtSlots - gdt.len
             IN  /\ panicked' # NoPanic <=> free < need
                 /\ panicked' # NoPanic => gdt' = gdt
                 /\ panicked' = NoPanic => gdt'.len = gdt.len + need ]_vars

\* add_entry of a system segment has panicked with one slot still free
C17_Witness ==
    /\ panicked = "too many entries in GDT"
    /\ segs.op = "add_entry"
    /\ segs.entry.kind = "system"
    /\ gdt.len = GdtSlots - 1
    /\ gdt.table[GdtSlots - 1] = {}

(* C18: the selector add_entry returns has the index of the first slot     *)
(* written and the descriptor's DPL as its RPL; a user segment takes one   *)
(* slot, a system segment the next two; slot 0 is never written and no     *)
(* slot written before is written again.                                   *)
C18_SelectorMatchesSlot ==
    [][ (AddEntryStep /\ panicked' = NoPanic) =>
          LET entry == segs'.entry
              sel == segs'.ret[1]
              first == gdt.len
              need == SlotsNeeded(entry)
          IN  /\ first >= 1
              /\ selector_index(sel) = first
              /\ selector_rpl(sel) = PrivilegeBits(entry.low)
              /\ gdt'.len = first + need
              /\ gdt'.table[first] = entry.low
              /\ entry.kind = "system" => gdt'.table[first + 1] = entry.high
              /\ \A i \in 0..(GdtSlots - 1) :
                    (i < first \/ i >= first + need) => gdt'.table[i] = gdt.table[i]
              /\ gdt'.table[0] = {} ]_vars

(* kernel-code, kernel-data and a TSS descriptor have been added to a new  *)
(* table: the TSS descriptor is in slots 3 and 4 and its selector has      *)
(* index 3.                                                                *)
C18_Witness ==
    /\ panicked = NoPanic
    /\ segs.op = "add_entry"
    /\ segs.entry.made_by = "tss_segment"
    /\ gdt.len = 5
    /\ gdt.table[1] = KERNEL_CODE64
    /\ gdt.table[2] = KERNEL_DATA
    /\ gdt.table[3] = segs.entry.low
    /\ gdt.table[4] = segs.entry.high
    /\ selector_index(segs.ret[1]) = 3

\* the table and the registers the claim C19 describes, after an init
InitBuildsFullGdt ==
    /\ gdt.len = 7
    /\ gdt.table[0] = {}
    /\ gdt.table[1] = KERNEL_CODE64
    /\ gdt.table[2] = KERNEL_DATA
    /\ gdt.table[3] = USER_CODE64
    /\ gdt.table[4] = USER_DATA
    /\ gdt.table[5] = tss_segment(segs.tss).low
    /\ gdt.table[6] = tss_segment(segs.tss).high
    /\ segs.cs = SegmentSelector(1, 0)
    /\ segs.ds = SegmentSelector(2, 0)
    /\ segs.tr = SegmentSelector(5, 0)

\* cpu::init of arch.rs builds that table and never panics
ArchInitBuildsFullGdt ==
    /\ ~(segs.op = "init_panic" /\ segs.variant = "arch.rs")
    /\ (segs.op = "init" /\ segs.variant = "arch.rs") => InitBuildsFullGdt

(* C19: per-CPU init, in the variant of arch.rs and in that of cpu.rs,     *)
(* builds the table null, kernel-code, kernel-data, user-code, user-data,  *)
(* TSS (two slots), of length 7, without reaching the capacity panic, and  *)
(* loads the code segment register with selector index 1, the data segment *)
(* register with index 2 and the task register with the TSS selector, all  *)
(* with RPL 0.                                                             *)
C19_InitBuildsGdt ==
    /\ segs.op # "init_panic"
    /\ segs.op = "init" => InitBuildsFullGdt

\* the ring each constructor of SegmentDescriptor is meant to encode
IntendedRing(made_by) ==
    IF made_by \in {"user_code_segment", "user_data_segment"} THEN 3 ELSE 0

(* C20 (P6): dpl() of the descriptors built by kernel_code_segment and     *)
(* kernel_data_segment is 0, of those built by user_code_segment and       *)
(* user_data_segment 3, and of a descriptor built by tss_segment, for any  *)
(* address, 0.                                                             *)
C20_DescriptorRoundTrip ==
    /\ segs.op = "add_entry" => dpl(segs.entry) = IntendedRing(segs.entry.made_by)
    /\ \A entry \in Descriptors : dpl(entry) = IntendedRing(entry.made_by)

(* A TSS descriptor for the address with every bit set has been added, and *)
(* before it a user segment: the selector of the first has RPL 0, bits 45  *)
(* and 46 of its low word are clear, and the user segment decodes to 3.    *)
C20_Witness ==
    /\ panicked = NoPanic
    /\ segs.op = "add_entry"
    /\ segs.entry = tss_segment(0..63)
    /\ selector_rpl(segs.ret[1]) = 0
    /\ segs.entry.low \cap SegmentDescriptorFlags.DPL_RING_3 = {}
    /\ gdt.len = 4
    /\ gdt.table[1] \in {USER_CODE64, USER_DATA}
    /\ dpl(UserSegment("user", gdt.table[1])) = 3

----------------------------------------------------------------------------
(* The trap pipeline: trap.rs of the kernel snapshots and sys/interrupts.rs *)
(* of the library snapshot, with the panic handler each is built with.  A  *)
(* byte written to a port is the set of the positions of its 1 bits.       *)

\* register_irq_handler calls made at run time
MaxRegisterCalls == 2

\* enable_irq calls made at run time
MaxEnableIrq == 2

IO_PIC1_COMMAND == 32
IO_PIC1_DATA == 33
IO_PIC2_COMMAND == 160
IO_PIC2_DATA == 161

TRAP_IRQ0 == 32
IRQ_SLAVE == 2
IRQ_COM1 == 4
CMD_END_OF_INTERRUPT == 32

\* interrupts.rs
PIC_IRQ_OFFSET == 32

\* ExceptionVector::GeneralProtection, ::Page, ::Breakpoint, ::Double
GeneralProtection == 13
Page == 14
Breakpoint == 3
Double == 8

\* ICW1 and ICW4 flags
ICW1_ICW4 == 1
ICW1_INIT == 16
ICW4_MODE_8086 == 1

(* The snapshots: the kernel with trap.rs and the panic handler of         *)
(* panic.rs or of runtime.rs, the library with sys/interrupts.rs and the   *)
(* handler of magic!, and the kernel_main of kernel/lib.rs, which has no   *)
(* trap module.                                                            *)
Builds ==
    { [trap |-> "trap.rs", panic |-> "panic.rs"],
      [trap |-> "trap.rs", panic |-> "runtime.rs"],
      [trap |-> "interrupts.rs", panic |-> "magic"],
      [trap |-> "none", panic |-> "lib.rs"] }

\* trap::init with enable_pic8259a, statement by statement
TrapInitProgram ==
    << "set_general_handler", "idt.load", "irq_mask", "mask_master", "mask_slave",
       "master_icw1", "master_icw2", "master_icw3", "master_icw4",
       "slave_icw1", "slave_icw2", "slave_icw3", "slave_icw4",
       "console::enable_interrupts", "interrupts::enable" >>

\* init of the library with sys::interrupts::init, statement by statement
LibInitProgram ==
    << "serial::init", "gdt::init", "IDT.load", "PICS.lock", "write_masks", "initialize",
       "PICS.unlock", "interrupts::enable", "time::init", "memory::init" >>

\* kernel_main of kernel/lib.rs
KernelMainProgram == << "arch::cpu::init", "console::init", "framealloc::init", "vm::init" >>

Program(b) ==
    CASE b.trap = "trap.rs" -> TrapInitProgram
      [] b.trap = "interrupts.rs" -> LibInitProgram
      [] OTHER -> KernelMainProgram

\* the init routine has returned
Running == build # PoweredOff /\ boot_pc > Len(Program(build))

\* the statement of the init routine that runs next
NextStmt == IF boot_pc \in 1..Len(Program(build)) THEN Program(build)[boot_pc] ELSE "none"

\* the statement stmt of the init routine of the snapshot has completed
Completed(stmt) ==
    \E i \in 1..Len(Program(build)) : Program(build)[i] = stmt /\ boot_pc > i

(* A byte written to a port of an 8259A.  The command port takes ICW1,     *)
(* which starts the initialization sequence, or an operation command such  *)
(* as end-of-interrupt; the data port takes ICW2 (vector offset), ICW3 and *)
(* ICW4 while the sequence runs, and the interrupt mask otherwise.         *)
PicWrite(p, port, value) ==
    LET chip == IF port \in {IO_PIC1_COMMAND, IO_PIC1_DATA} THEN "master" ELSE "slave"
        base == IF chip = "master" THEN 0 ELSE 8
    IN  IF port \in {IO_PIC1_COMMAND, IO_PIC2_COMMAND}
        THEN IF from_u16(ICW1_INIT) \subseteq value
             THEN [p EXCEPT !.icw[chip] = 2, !.programmed[chip] = FALSE]
             ELSE p
        ELSE CASE p.icw[chip] = 2 -> [p EXCEPT !.offset[chip] = as_u16(value), !.icw[chip] = 3]
               [] p.icw[chip] = 3 -> [p EXCEPT !.icw[chip] = 4]
               [] p.icw[chip] = 4 -> [p EXCEPT !.icw[chip] = 0, !.programmed[chip] = TRUE]
               [] OTHER -> [p EXCEPT !.imr = (@ \ (base..(base + 7)))
                                             \cup { base + b : b \in value \cap (0..7) }]

\* port writes in order; each is <<port, value>>
RECURSIVE PicWrites(_, _)
PicWrites(p, writes) ==
    IF writes = <<>> THEN p
    ELSE PicWrites(PicWrite(p, writes[1][1], writes[1][2]), Tail(writes))

\* both controllers have completed their initialization sequence
PicProgrammed == pic.programmed["master"] /\ pic.programmed["slave"]

\* the lines the mask registers let through
Unmasked == IrqLines \ pic.imr

\* set_irq_mask: the bytes written to the two data ports
set_irq_mask_writes(mask) ==
    << <<IO_PIC1_DATA, mask \cap (0..7)>>, <<IO_PIC2_DATA, shr(mask, 8)>> >>

\* enable_irq: the mask handed to set_irq_mask
enable_irq_mask(mask, line) == mask \ {line}

\* the port writes of enable_pic8259a, by statement
EnablePicWrites(stmt) ==
    CASE stmt = "mask_master" -> << <<IO_PIC1_DATA, 0..7>> >>
      [] stmt = "mask_slave" -> << <<IO_PIC2_DATA, 0..7>> >>
      [] stmt = "master_icw1" -> << <<IO_PIC1_COMMAND, from_u16(ICW1_ICW4 + ICW1_INIT)>> >>
      [] stmt = "master_icw2" -> << <<IO_PIC1_DATA, from_u16(TRAP_IRQ0)>> >>
      [] stmt = "master_icw3" -> << <<IO_PIC1_DATA, {IRQ_SLAVE}>> >>
      [] stmt = "master_icw4" -> << <<IO_PIC1_DATA, from_u16(ICW4_MODE_8086)>> >>
      [] stmt = "slave_icw1" -> << <<IO_PIC2_COMMAND, from_u16(ICW1_ICW4 + ICW1_INIT)>> >>
      [] stmt = "slave_icw2" -> << <<IO_PIC2_DATA, from_u16(TRAP_IRQ0 + 8)>> >>
      [] stmt = "slave_icw3" -> << <<IO_PIC2_DATA, from_u16(IRQ_SLAVE)>> >>
      [] stmt = "slave_icw4" -> << <<IO_PIC2_DATA, from_u16(ICW4_MODE_8086)>> >>
      [] stmt = "console::enable_interrupts" ->
             set_irq_mask_writes(enable_irq_mask(irq.mask, IRQ_COM1))
      [] OTHER -> <<>>

(* ChainedPics::initialize of the pic8259 crate: the masks are read, the   *)
(* four command words go to each chip, the masks are written back.         *)
ChainedPicsInitialize(p) ==
    PicWrites(p,
        << <<IO_PIC1_COMMAND, from_u16(ICW1_ICW4 + ICW1_INIT)>>,
           <<IO_PIC2_COMMAND, from_u16(ICW1_ICW4 + ICW1_INIT)>>,
           <<IO_PIC1_DATA, from_u16(PIC_IRQ_OFFSET)>>,
           <<IO_PIC2_DATA, from_u16(PIC_IRQ_OFFSET + 8)>>,
           <<IO_PIC1_DATA, from_u16(4)>>,
           <<IO_PIC2_DATA, from_u16(2)>>,
           <<IO_PIC1_DATA, from_u16(ICW4_MODE_8086)>>,
           <<IO_PIC2_DATA, from_u16(ICW4_MODE_8086)>>,
           <<IO_PIC1_DATA, p.imr \cap (0..7)>>,
           <<IO_PIC2_DATA, shr(p.imr, 8)>> >>)

\* the controllers after a statement of the init routine; write_masks(0, 0) clears both masks
PicAfter(stmt, p) ==
    CASE stmt = "PICS.lock" -> [p EXCEPT !.locked = TRUE]
      [] stmt = "PICS.unlock" -> [p EXCEPT !.locked = FALSE]
      [] stmt = "write_masks" -> PicWrites(p, << <<IO_PIC1_DATA, {}>>, <<IO_PIC2_DATA, {}>> >>)
      [] stmt = "initialize" -> ChainedPicsInitialize(p)
      [] OTHER -> PicWrites(p, EnablePicWrites(stmt))

\* cpu.irq_mask and the lines enabled after a statement of the init routine
IrqAfter(stmt) ==
    CASE stmt = "irq_mask" -> [irq EXCEPT !.mask = IrqLines \ {IRQ_SLAVE}]
      [] stmt = "console::enable_interrupts" ->
             [mask |-> enable_irq_mask(irq.mask, IRQ_COM1), enabled |-> irq.enabled \cup {IRQ_COM1}]
      [] OTHER -> irq

\* everything outside the trap pipeline and the interrupt flag
notTrap == <<allocVars, boot, gdtVars, locks, pc, raw_depth, scope, nest, done, vmVars, heapVars, lateVars>>

\* the machine starts one of the snapshots
PowerOn(b) ==
    /\ build = PoweredOff
    /\ panicked = NoPanic
    /\ build' = b
    /\ boot_pc' = 1
    /\ UNCHANGED <<panicked, cpu, idt, pic, irq, vectors, isr, reg, out, notTrap>>

\* the next statement of the init routine
BootStep ==
    /\ panicked = NoPanic
    /\ build # PoweredOff
    /\ boot_pc \in 1..Len(Program(build))
    /\ isr.step = "idle"
    /\ boot_pc' = boot_pc + 1
    /\ idt' = IF NextStmt \in {"idt.load", "IDT.load"} THEN "kernel" ELSE idt
    /\ pic' = PicAfter(NextStmt, pic)
    /\ irq' = IrqAfter(NextStmt)
    /\ vectors' = IF NextStmt = "serial::init"
                  THEN [vectors EXCEPT !.table[4] = "serial_intr_handler"]
                  ELSE vectors
    /\ cpu' = IF NextStmt = "interrupts::enable" THEN [cpu EXCEPT !.iflag = TRUE] ELSE cpu
    /\ UNCHANGED <<panicked, build, isr, reg, out, notTrap>>

\* the events of a panic handler
Text == [ev |-> "text", port |-> 0, value |-> 0]
Cli == [ev |-> "cli", port |-> 0, value |-> 0]
Outw(port, value) == [ev |-> "outw", port |-> port, value |-> value]
Hlt == [ev |-> "hlt", port |-> 0, value |-> 0]

\* the port and the word that switch QEMU off
PowerOffPort == 1540
ShutdownWord == 8192

\* what each panic handler does, in order
PanicProgram(handler) ==
    CASE handler = "panic.rs" -> << Cli, Text, Outw(PowerOffPort, ShutdownWord), Hlt >>
      [] handler = "runtime.rs" -> << Text, Outw(PowerOffPort, 4), Hlt >>
      [] handler = "lib.rs" -> << Text, Outw(PowerOffPort, ShutdownWord), Hlt >>
      [] OTHER -> << Text, Hlt >>

\* the panic handler has reached its halt loop
Halted == build # PoweredOff /\ out.pc = Len(PanicProgram(build.panic))

\* memory::framealloc::init panics on the boot memory map
BootPanic ==
    /\ panicked = NoPanic
    /\ NextStmt = "framealloc::init"
    /\ panicked' = "attempt to subtract with overflow"
    /\ UNCHANGED <<cpu, trapVars, notTrap>>

\* the next statement of the panic handler
PanicStep ==
    /\ panicked # NoPanic
    /\ build # PoweredOff
    /\ ~Halted
    /\ LET event == PanicProgram(build.panic)[out.pc + 1]
       IN  /\ out' = [pc |-> out.pc + 1, trace |-> Append(out.trace, event)]
           /\ cpu' = IF event = Cli THEN [cpu EXCEPT !.iflag = FALSE] ELSE cpu
    /\ UNCHANGED <<panicked, build, boot_pc, idt, pic, irq, vectors, isr, reg, notTrap>>

\* enable_irq(line) of trap.rs, called by a driver after init
EnableIrq(line) ==
    /\ panicked = NoPanic
    /\ build.trap = "trap.rs"
    /\ Running
    /\ isr.step = "idle"
    /\ Cardinality(irq.enabled \ {IRQ_COM1}) < MaxEnableIrq
    /\ irq' = [mask |-> enable_irq_mask(irq.mask, line), enabled |-> irq.enabled \cup {line}]
    /\ pic' = PicWrites(pic, set_irq_mask_writes(enable_irq_mask(irq.mask, line)))
    /\ UNCHANGED <<panicked, cpu, build, boot_pc, idt, vectors, isr, reg, out, notTrap>>

\* the handlers a driver registers
Handlers == {"serial_intr_handler", "timer_handler"}

\* the lines of the drivers: the timer, COM1 and a line of the slave controller
DriverLines == {0, IRQ_COM1, 12}

\* register_irq_handler(irq, vector) is called
RegisterCall(line, vector) ==
    /\ panicked = NoPanic
    /\ build.trap = "interrupts.rs"
    /\ Running
    /\ isr.step = "idle"
    /\ reg.step = "idle"
    /\ reg.calls < MaxRegisterCalls
    /\ reg' = [step |-> "flags", irq |-> line, vector |-> vector, found_if |-> cpu.iflag,
               saved_if |-> FALSE, before |-> vectors.table, calls |-> reg.calls + 1]
    /\ UNCHANGED <<panicked, cpu, build, boot_pc, idt, pic, irq, vectors, isr, out, notTrap>>

\* a variant of without_interrupts that leaves the flag as it is
without_interrupts_keep(saved_intpt_flag, iflag) == iflag

\* interrupts::without_interrupts: disable() if the flag was set
without_interrupts_disable(saved_intpt_flag, iflag) ==
    IF saved_intpt_flag THEN FALSE ELSE iflag

\* the next statement of register_irq_handler
RegisterStep ==
    /\ panicked = NoPanic
    /\ isr.step = "idle"
    /\ reg.step # "idle"
    /\ CASE reg.step = "flags" ->
              /\ reg' = [reg EXCEPT !.saved_if = cpu.iflag, !.step = "cli"]
              /\ UNCHANGED <<cpu, vectors>>
         [] reg.step = "cli" ->
              /\ cpu' = [cpu EXCEPT !.iflag = without_interrupts_disable(reg.saved_if, @)]
              /\ reg' = [reg EXCEPT !.step = "lock"]
              /\ UNCHANGED vectors
         [] reg.step = "lock" ->
              /\ ~vectors.locked
              /\ vectors' = [vectors EXCEPT !.locked = TRUE]
              /\ reg' = [reg EXCEPT !.step = "write"]
              /\ UNCHANGED cpu
         [] reg.step = "write" ->
              /\ vectors' = [vectors EXCEPT !.table[reg.irq] = reg.vector]
              /\ reg' = [reg EXCEPT !.step = "unlock"]
              /\ UNCHANGED cpu
         [] reg.step = "unlock" ->
              /\ vectors' = [vectors EXCEPT !.locked = FALSE]
              /\ reg' = [reg EXCEPT !.step = "sti"]
              /\ UNCHANGED cpu
         [] OTHER ->
              /\ cpu' = IF reg.saved_if THEN [cpu EXCEPT !.iflag = TRUE] ELSE cpu
              /\ reg' = [reg EXCEPT !.step = "idle"]
              /\ UNCHANGED vectors
    /\ UNCHANGED <<panicked, build, boot_pc, idt, pic, irq, isr, out, notTrap>>

\* the core takes a trap through an interrupt gate, which clears the flag
Enter(vector) ==
    /\ isr' = [raised |-> vector, vector |-> vector, step |-> "entry", saved_if |-> cpu.iflag,
               trace |-> <<>>, outcome |-> "running"]
    /\ cpu' = [cpu EXCEPT !.iflag = FALSE]

(* A controller raises the interrupt of a line it lets through, with the   *)
(* vector offset of its ICW2; the cascade line of the master carries the   *)
(* lines of the slave.                                                     *)
RaiseIrq(line) ==
    /\ panicked = NoPanic
    /\ build # PoweredOff
    /\ idt = "kernel"
    /\ cpu.iflag
    /\ isr.step = "idle"
    /\ PicProgrammed
    /\ line \in Unmasked \ {IRQ_SLAVE}
    /\ line >= 8 => IRQ_SLAVE \in Unmasked
    /\ Enter(IF line < 8 THEN pic.offset["master"] + line
              ELSE pic.offset["slave"] + (line - 8))
    /\ UNCHANGED <<panicked, build, boot_pc, idt, pic, irq, vectors, reg, out, notTrap>>

\* the vectors the core raises by itself in the model
RaisedVectors == {Breakpoint, 6, Double, GeneralProtection, Page, 48}

\* the core raises an exception or runs `int n`
RaiseException(vector) ==
    /\ panicked = NoPanic
    /\ build # PoweredOff
    /\ idt = "kernel"
    /\ isr.step = "idle"
    /\ Enter(vector)
    /\ UNCHANGED <<panicked, build, boot_pc, idt, pic, irq, vectors, reg, out, notTrap>>

\* the events of a trap handler
HandlerCall(handler) == [ev |-> "call", what |-> handler]
EndOfInterrupt(vector) == [ev |-> "end_of_interrupt", what |-> ToString(vector)]
Command(chip) == [ev |-> "eoi", what |-> chip]

\* end_of_interrupt of trap.rs: the commands written
end_of_interrupt(v) ==
    IF TRAP_IRQ0 <= v /\ v < TRAP_IRQ0 + 8 THEN << Command("master") >>
    ELSE IF TRAP_IRQ0 + 8 <= v /\ v < TRAP_IRQ0 + 16 THEN << Command("slave") >>
    ELSE <<>>

\* ChainedPics::notify_end_of_interrupt of the pic8259 crate: the commands written
notify_end_of_interrupt(v) ==
    IF PIC_IRQ_OFFSET <= v /\ v < PIC_IRQ_OFFSET + 16
    THEN (IF v >= PIC_IRQ_OFFSET + 8 THEN << Command("slave") >> ELSE <<>>)
         \o << Command("master") >>
    ELSE <<>>

\* the trap handler panics
TrapPanics(message) ==
    /\ panicked' = message
    /\ isr' = [isr EXCEPT !.step = "panic", !.outcome = "panicked"]
    /\ UNCHANGED <<cpu, vectors>>

\* the trap handler returns with iretq, which restores the flag
TrapReturns(trace) ==
    /\ isr' = [isr EXCEPT !.step = "idle", !.outcome = "returned", !.trace = trace]
    /\ cpu' = [cpu EXCEPT !.iflag = isr.saved_if]
    /\ UNCHANGED panicked

\* kerneltrap: the arm of the match
kerneltrap_kind(index) ==
    CASE index = GeneralProtection -> "general protection"
      [] index = Page -> "page"
      [] index = IRQ_COM1 + TRAP_IRQ0 -> "irq"
      [] OTHER -> "unknown"

\* kerneltrap(_stack_frame, index, _error_code) of trap.rs
KernelTrap ==
    /\ build.trap = "trap.rs"
    /\ isr.step = "entry"
    /\ LET kind == kerneltrap_kind(isr.vector)
       IN  CASE kind = "general protection" ->
                  TrapPanics("trap::kerneltrap(): general protection fault")
             [] kind = "page" -> TrapPanics("trap::kerneltrap(): page fault")
             [] kind = "irq" ->
                  /\ TrapReturns(<< HandlerCall("console::interrupt"),
                                     EndOfInterrupt(isr.vector) >>
                                  \o end_of_interrupt(isr.vector))
                  /\ UNCHANGED vectors
             [] OTHER ->
                  TrapPanics("trap::kerneltrap(): unknown trap kind " \o ToString(isr.vector))
    /\ UNCHANGED <<build, boot_pc, idt, pic, irq, reg, out, notTrap>>

\* the gate of the IDT of interrupts.rs for a vector
IdtGate(vector) ==
    CASE vector = Breakpoint -> "breakpoint_handler"
      [] vector = Double -> "double_fault_handler"
      [] vector = Page -> "page_fault_handler"
      [] PIC_IRQ_OFFSET <= vector /\ vector < PIC_IRQ_OFFSET + 16 -> "irq_handler"
      [] OTHER -> "missing"

(* The core enters the handler of the IDT of interrupts.rs.  A vector with *)
(* no gate raises segment-not-present, which has no gate either, and the   *)
(* core ends in the double fault handler.                                  *)
IdtDispatch ==
    /\ build.trap = "interrupts.rs"
    /\ isr.step = "entry"
    /\ LET gate == IdtGate(isr.vector)
       IN  CASE gate \in {"breakpoint_handler", "double_fault_handler"} ->
                  TrapPanics("explicit panic")
             [] gate = "page_fault_handler" ->
                  /\ isr' = [isr EXCEPT !.step = "hlt", !.outcome = "halted"]
                  /\ UNCHANGED <<panicked, cpu, vectors>>
             [] gate = "irq_handler" ->
                  /\ isr' = [isr EXCEPT !.step = "lock"]
                  /\ UNCHANGED <<panicked, cpu, vectors>>
             [] OTHER ->
                  /\ isr' = [isr EXCEPT !.vector = Double]
                  /\ UNCHANGED <<panicked, cpu, vectors>>
    /\ UNCHANGED <<build, boot_pc, idt, pic, irq, reg, out, notTrap>>

\* irq_handler!: IRQ_VECTORS.lock() spins until the Mutex is free
IrqHandlerLock ==
    /\ build.trap = "interrupts.rs"
    /\ isr.step = "lock"
    /\ ~vectors.locked
    /\ vectors' = [vectors EXCEPT !.locked = TRUE]
    /\ isr' = [isr EXCEPT !.step = "call"]
    /\ UNCHANGED <<panicked, cpu, build, boot_pc, idt, pic, irq, reg, out, notTrap>>

\* irq_handler!: handlers[$irq](stack_frame); end_of_interrupt($irq); the guard drops
IrqHandlerRun ==
    /\ build.trap = "interrupts.rs"
    /\ isr.step = "call"
    /\ ~pic.locked
    /\ LET line == isr.vector - PIC_IRQ_OFFSET
       IN  TrapReturns(<< HandlerCall(vectors.table[line]),
                          EndOfInterrupt(line + PIC_IRQ_OFFSET) >>
                       \o notify_end_of_interrupt(line + PIC_IRQ_OFFSET))
    /\ vectors' = [vectors EXCEPT !.locked = FALSE]
    /\ UNCHANGED <<build, boot_pc, idt, pic, irq, reg, out, notTrap>>

NextTrap ==
    \/ \E b \in Builds : PowerOn(b)
    \/ BootStep
    \/ BootPanic
    \/ PanicStep
    \/ \E line \in DriverLines : EnableIrq(line)
    \/ \E line \in DriverLines, vector \in Handlers : RegisterCall(line, vector)
    \/ RegisterStep
    \/ \E line \in IrqLines : RaiseIrq(line)
    \/ \E vector \in RaisedVectors : RaiseException(vector)
    \/ KernelTrap
    \/ IdtDispatch
    \/ IrqHandlerLock
    \/ IrqHandlerRun

SpecTrap == Init /\ [][NextTrap]_vars

\* the vectors of the hardware IRQ lines
IrqVectors == TRAP_IRQ0..(TRAP_IRQ0 + 15)

\* cpu::init or gdt::init, the frame allocator and the kernel mappings or heap
SetupStatements ==
    CASE build.trap = "interrupts.rs" -> {"gdt::init", "memory::init"}
      [] build.trap = "none" -> {"arch::cpu::init", "framealloc::init", "vm::init"}
      [] OTHER -> {}

\* the order of trap::init, for the snapshots with trap.rs
TrapRsBringUpOrdered ==
    /\ [](build.trap = "trap.rs" /\ cpu.iflag => idt = "kernel" /\ PicProgrammed)
    /\ [][build.trap = "trap.rs" =>
            /\ pic' # pic => idt = "kernel"
            /\ Unmasked' \ Unmasked # {} => PicProgrammed]_vars

(* C21: in trap::init and in sys::interrupts::init the IDT is loaded       *)
(* before a controller is written to, no line is unmasked before both      *)
(* controllers have completed their initialization sequence, and the       *)
(* interrupt flag is never set while the IDT is not loaded or a controller *)
(* is not programmed.                                                      *)
C21_TrapBringUpOrdered ==
    /\ [](cpu.iflag => idt = "kernel" /\ PicProgrammed)
    /\ [][/\ pic' # pic => idt = "kernel"
          /\ Unmasked' \ Unmasked # {} => PicProgrammed]_vars

(* C22: while a setup statement of the init routine (segmentation or       *)
(* per-CPU setup, memory discovery, kernel mappings or heap) has not       *)
(* completed, the interrupt flag is clear and no IRQ handler runs.         *)
C22_InterruptsEnabledLast ==
    \A stmt \in SetupStatements :
        ~Completed(stmt) =>
            /\ ~cpu.iflag
            /\ ~(isr.step # "idle" /\ isr.raised \in IrqVectors)

(* C23: once both controllers are programmed, the lines their mask         *)
(* registers let through are exactly the lines enable_irq has been called  *)
(* for; right after initialization that is no line.                        *)
C23_UnmaskedOnlyByEnableIrq ==
    PicProgrammed => Unmasked = irq.enabled

\* the vector has an arm or a gate of its own in the snapshot
Recognized(vector) ==
    IF build.trap = "trap.rs" THEN kerneltrap_kind(vector) # "unknown"
    ELSE IdtGate(vector) # "missing"

\* no trap of a vector outside the IRQ range returns to the interrupted code
FaultsNeverReturn ==
    (isr.raised >= 0 /\ isr.raised \notin IrqVectors) => isr.outcome # "returned"

(* C24: the handler of a general-protection fault, of a page fault and of  *)
(* every other vector outside the IRQ range panics, for a vector with no   *)
(* arm of its own with the vector number in the message, and does not      *)
(* return to the interrupted code.                                         *)
C24_FaultsFailFast ==
    (isr.raised >= 0 /\ isr.raised \notin IrqVectors /\ isr.step \notin {"entry", "idle"}) =>
        /\ isr.outcome = "panicked"
        /\ panicked # NoPanic
        /\ ~Recognized(isr.raised) =>
              panicked = "trap::kerneltrap(): unknown trap kind " \o ToString(isr.raised)

\* the handler registered for the line of an IRQ vector
Registered(vector) ==
    IF build.trap = "trap.rs" THEN "console::interrupt"
    ELSE vectors.table[vector - PIC_IRQ_OFFSET]

\* the trap entry of sys/interrupts.rs calls the handler once, then signals, then returns
InterruptsRsDispatch ==
    [][(build.trap = "interrupts.rs" /\ isr.raised \in IrqVectors
          /\ isr.outcome = "running" /\ isr'.outcome # "running") =>
           /\ isr'.outcome = "returned"
           /\ SubSeq(isr'.trace, 1, 2)
                 = << HandlerCall(Registered(isr.raised)), EndOfInterrupt(isr.raised) >>
           /\ \A i \in 3..Len(isr'.trace) : isr'.trace[i].ev = "eoi"]_vars

(* C25: the trap entry of an IRQ vector calls the handler registered for   *)
(* the line once, signals one end-of-interrupt for the line after the      *)
(* handler has returned, and returns to the interrupted code.              *)
C25_IrqDispatch ==
    [][(isr.raised \in IrqVectors /\ isr.outcome = "running" /\ isr'.outcome # "running") =>
           /\ isr'.outcome = "returned"
           /\ SubSeq(isr'.trace, 1, 2)
                 = << HandlerCall(Registered(isr.raised)), EndOfInterrupt(isr.raised) >>
           /\ \A i \in 3..Len(isr'.trace) : isr'.trace[i].ev = "eoi"]_vars

(* C26: no IRQ dispatcher waits for the Mutex of IRQ_VECTORS while the     *)
(* code it interrupted holds it; register_irq_handler replaces slot irq    *)
(* only, and returns with the interrupt flag as it found it.               *)
C26_RegisterCannotRace ==
    /\ [](~(isr.step = "lock" /\ vectors.locked))
    /\ [][(reg.step # "idle" /\ reg'.step = "idle") =>
             /\ vectors'.table = [reg.before EXCEPT ![reg.irq] = reg.vector]
             /\ cpu'.iflag = reg.found_if]_vars

(* register_irq_handler holds the Mutex with the flag cleared while line 0 *)
(* is let through, after an IRQ was served during an earlier call.         *)
C26_Witness ==
    /\ reg.step = "write"
    /\ reg.found_if
    /\ vectors.locked
    /\ ~cpu.iflag
    /\ 0 \in Unmasked
    /\ reg.calls = 2
    /\ isr.outcome = "returned"
    /\ isr.trace[1] = HandlerCall("timer_handler")

(* C27: a panic handler writes to the power-off port only after the        *)
(* diagnostic text, and has written to it when it reaches its halt loop.   *)
C27_FatalExitProtocol ==
    /\ \A j \in 1..Len(out.trace) :
          out.trace[j].ev = "outw" => \E i \in 1..(j - 1) : out.trace[i] = Text
    /\ Halted => /\ out.trace[Len(out.trace)] = Hlt
                 /\ \E j \in 1..Len(out.trace) :
                       out.trace[j].ev = "outw" /\ out.trace[j].port = PowerOffPort

\* the handlers of panic.rs, of runtime.rs and of kernel/lib.rs follow the protocol
KernelPanicHandlersFollowProtocol ==
    build.panic \in {"panic.rs", "runtime.rs", "lib.rs"} => C27_FatalExitProtocol

----------------------------------------------------------------------------
(* The virtual memory mapper of memory.rs and the heap mapping of          *)
(* sys/alloc.rs.  A mapping of the page table is a record: the call that   *)
(* installed it, the base its virtual address is counted from, the start   *)
(* of the page, the page size, the start of the frame and the flags.       *)
(* Frames for the intermediate tables are taken to be available.           *)

\* map_virtual_region calls made by the kernel in one run
MaxMapCalls == 2

\* PageTableFlags of the x86_64 crate, each flag the set of its bit positions
PageTableFlags == [PRESENT |-> {0}, WRITABLE |-> {1}, NO_EXECUTE |-> {63}]

\* S::SIZE
SIZE(S) ==
    CASE S = "Size4KiB" -> 4096
      [] S = "Size2MiB" -> 2097152
      [] OTHER -> 1073741824

\* Page::containing_address and PhysFrame::containing_address: the start address
containing_address(S, addr) == align_down(addr, SIZE(S))

\* Mapper::map_to: no mapping of the address space may share an address with the page
map_to(pt, entry) ==
    IF \E other \in pt :
          /\ other.base = entry.base
          /\ other.page < entry.page + SIZE(entry.size)
          /\ entry.page < other.page + SIZE(other.size)
    THEN [pgtbl |-> pt, ret |-> "Err(PageAlreadyMapped)"]
    ELSE [pgtbl |-> pt \cup {entry}, ret |-> "Ok"]

\* the loop of map_virtual_region_with_pgtbl over Page::range(start_page, end_page)
RECURSIVE MapRange(_, _, _, _, _, _, _, _, _)
MapRange(pt, by, base, S, page, start_page, end_page, pa, flags) ==
    IF page >= end_page THEN [pgtbl |-> pt, ret |-> "Ok"]
    ELSE LET frame_addr == pa + (page - start_page)
             r == map_to(pt, [by |-> by, base |-> base, page |-> page, size |-> S,
                              frame |-> containing_address(S, frame_addr), flags |-> flags])
         IN  IF r.ret # "Ok" THEN r
             ELSE MapRange(r.pgtbl, by, base, S, page + SIZE(S), start_page, end_page, pa, flags)

\* map_virtual_region_with_pgtbl::<S>(pgtbl, va, pa, size, flags)
map_virtual_region_with_pgtbl(pt, by, base, S, va, pa, size, flags) ==
    LET start_page == containing_address(S, va)
        end_page == containing_address(S, va + size)
    IN  MapRange(pt, by, base, S, start_page, start_page, end_page, pa, flags)

\* the flag sets callers pass
FlagSets ==
    { PageTableFlags.PRESENT,
      PageTableFlags.PRESENT \cup PageTableFlags.WRITABLE,
      PageTableFlags.PRESENT \cup PageTableFlags.WRITABLE \cup PageTableFlags.NO_EXECUTE }

\* the page sizes, addresses and sizes callers pass, in terms of the page size
MapSizes == {"Size4KiB", "Size2MiB"}
MapVirtAddrs(S) == {0, SIZE(S), SIZE(S) + 100}
MapPhysAddrs(S) == {0, 2 * SIZE(S)}
MapLengths(S) == {0, 1, SIZE(S), SIZE(S) + 1, 2 * SIZE(S)}

\* the map_virtual_region calls made so far
MapCalls == IF mapped.op = "map_virtual_region" THEN mapped.calls ELSE 0

\* everything outside the page table
notVm == <<allocVars, boot, cpuVars, gdtVars, trapVars, heapVars, lateVars>>

\* map_virtual_region::<S>(va, pa, size, flags)
MapVirtualRegion(S, va, pa, size, flags) ==
    /\ panicked = NoPanic
    /\ mapped.op \in {"none", "memory::init", "map_virtual_region"}
    /\ MapCalls < MaxMapCalls
    /\ LET r == map_virtual_region_with_pgtbl(pgtbl, "map_virtual_region", "zero",
                                              S, va, pa, size, flags)
       IN  /\ pgtbl' = r.pgtbl
           /\ mapped' = [op |-> "map_virtual_region", calls |-> MapCalls + 1, S |-> S,
                         va |-> va, pa |-> pa, size |-> size, flags |-> flags, ret |-> r.ret]
    /\ UNCHANGED <<panicked, notVm>>

(* The four calls of memory::init on the zeroed kernel page table: the     *)
(* direct map, the text of the kernel, its data, and the rest of physical  *)
(* memory.  Each call hands one flag set to every page it maps; the table  *)
(* keeps the first page of each.                                           *)
KernelMappings ==
    << [by |-> "memory::init", base |-> "HIGH_HALF_DIRECT_MAP", page |-> 0, size |-> "Size1GiB",
        frame |-> 0,
        flags |-> PageTableFlags.PRESENT \cup PageTableFlags.NO_EXECUTE
                    \cup PageTableFlags.WRITABLE],
       [by |-> "memory::init", base |-> "kernel_start", page |-> 0, size |-> "Size4KiB",
        frame |-> 0, flags |-> PageTableFlags.PRESENT],
       [by |-> "memory::init", base |-> "data_start", page |-> 0, size |-> "Size4KiB",
        frame |-> 0,
        flags |-> PageTableFlags.PRESENT \cup PageTableFlags.NO_EXECUTE
                    \cup PageTableFlags.WRITABLE],
       [by |-> "memory::init", base |-> "kernel_end.align_up(Size2MiB::SIZE)", page |-> 0,
        size |-> "Size2MiB", frame |-> 0,
        flags |-> PageTableFlags.PRESENT \cup PageTableFlags.NO_EXECUTE
                    \cup PageTableFlags.WRITABLE] >>

\* map_to for each mapping of a list, in order
RECURSIVE MapAll(_, _)
MapAll(pt, entries) ==
    IF entries = <<>> THEN [pgtbl |-> pt, ret |-> "Ok"]
    ELSE LET r == map_to(pt, entries[1])
         IN  IF r.ret # "Ok" THEN r ELSE MapAll(r.pgtbl, Tail(entries))

\* memory::init, from kpgtbl.zero() to the last map_virtual_region_with_pgtbl
VmInit ==
    /\ panicked = NoPanic
    /\ mapped.op = "none"
    /\ LET r == MapAll({}, KernelMappings)
       IN  /\ pgtbl' = r.pgtbl
           /\ mapped' = [op |-> "memory::init", ret |-> r.ret]
    /\ UNCHANGED <<panicked, notVm>>

(* init_heap(mapper, allocator) of sys/alloc.rs: every page from HEAPBASE  *)
(* to HEAPSTOP gets the same flags; the table keeps the first.             *)
InitHeap ==
    /\ panicked = NoPanic
    /\ mapped.op = "none"
    /\ LET flags == PageTableFlags.PRESENT \cup PageTableFlags.WRITABLE
           r == map_to(pgtbl, [by |-> "init_heap", base |-> "HEAPBASE", page |-> 0,
                               size |-> "Size4KiB", frame |-> 0, flags |-> flags])
       IN  /\ pgtbl' = r.pgtbl
           /\ mapped' = [op |-> "init_heap", ret |-> r.ret]
    /\ UNCHANGED <<panicked, notVm>>

NextVm ==
    \/ \E S \in MapSizes :
          \E va \in MapVirtAddrs(S), pa \in MapPhysAddrs(S), size \in MapLengths(S),
             flags \in FlagSets : MapVirtualRegion(S, va, pa, size, flags)
    \/ VmInit
    \/ InitHeap

SpecVm == Init /\ [][NextVm]_vars

\* the step is a map_virtual_region call
MapStep == mapped'.op = "map_virtual_region" /\ mapped' # mapped

\* the starts of the pages of size S that share an address with [va, va + size)
PagesOfRange(S, va, size) ==
    { page \in { containing_address(S, va) + k * SIZE(S) : k \in 0..3 } :
        page < va + size /\ va < page + SIZE(S) }

\* a successful call maps nothing outside the range, and each frame follows the page
MapStaysInsideRange ==
    [][(MapStep /\ mapped'.ret = "Ok") =>
          LET S == mapped'.S
              va == mapped'.va
              installed == pgtbl' \ pgtbl
          IN  /\ { e.page : e \in installed } \subseteq PagesOfRange(S, va, mapped'.size)
              /\ \A e \in installed :
                    e.frame = containing_address(S,
                                 mapped'.pa + (e.page - containing_address(S, va)))]_vars

(* C28: a successful map_virtual_region with size > 0 maps every page of   *)
(* the page size that shares an address with [va, va + size), the last     *)
(* page included when va + size is not aligned, each to the frame of pa    *)
(* plus the page's offset from the first page, and no other page.          *)
C28_MapRegionCoverage ==
    [][(MapStep /\ mapped'.ret = "Ok" /\ mapped'.size > 0) =>
          LET S == mapped'.S
              va == mapped'.va
              installed == pgtbl' \ pgtbl
          IN  /\ { e.page : e \in installed } = PagesOfRange(S, va, mapped'.size)
              /\ \A e \in installed :
                    e.frame = containing_address(S,
                                 mapped'.pa + (e.page - containing_address(S, va)))]_vars

\* the flags allow writing and executing
WritableAndExecutable(flags) ==
    PageTableFlags.WRITABLE \subseteq flags /\ ~(PageTableFlags.NO_EXECUTE \subseteq flags)

\* the mappings of memory::init keep writing and executing apart
KernelMappingsSplit ==
    \A e \in pgtbl : e.by = "memory::init" => ~WritableAndExecutable(e.flags)

(* C29: every mapping installed during memory bring-up is not writable or  *)
(* not executable: the text of the kernel is present only, and the data,   *)
(* the direct map and the heap are present, writable and no-execute.       *)
C29_WriteXorExecute ==
    \A e \in pgtbl :
        e.by \in {"memory::init", "init_heap"} =>
            /\ ~WritableAndExecutable(e.flags)
            /\ e.flags = IF e.base = "kernel_start"
                         THEN PageTableFlags.PRESENT
                         ELSE PageTableFlags.PRESENT \cup PageTableFlags.WRITABLE
                                \cup PageTableFlags.NO_EXECUTE

----------------------------------------------------------------------------
(* The BuddyAllocator of heap.rs.  A free list is the sequence of the      *)
(* addresses of its blocks, the head first.                                *)

\* reserve() calls made on the heap in one run
MaxHeapReserves == 2

\* size_of::<u64>()
SizeOfU64 == 8

\* num.trailing_zeros(), for num > 0
RECURSIVE trailing_zeros(_)
trailing_zeros(num) == IF num % 2 = 1 THEN 0 ELSE 1 + trailing_zeros(num \div 2)

\* prev_power_of_two(num), for num > 0
RECURSIVE prev_power_of_two(_)
prev_power_of_two(num) == IF num < 2 THEN 1 ELSE 2 * prev_power_of_two(num \div 2)

\* LinkedList::pop; LinkedList::push(item) puts the item before the head
list_pop(list) == IF list = <<>> THEN [list |-> list, item |-> None]
                  ELSE [list |-> Tail(list), item |-> Some(Head(list))]

\* the loop of reserve(): one block per round, as large as address and rest allow
RECURSIVE ReserveLoop(_, _, _, _)
ReserveLoop(lists, current_start, end, total) ==
    IF current_start + SizeOfU64 > end
    THEN [free_lists |-> lists, total |-> total, panic |-> NoPanic]
    ELSE LET lowbit == 2 ^ trailing_zeros(current_start)
             current_size == IF lowbit < prev_power_of_two(end - current_start)
                             THEN lowbit ELSE prev_power_of_two(end - current_start)
             k == trailing_zeros(current_size)
         IN  IF k >= ORDER
             THEN [free_lists |-> lists, total |-> total, panic |-> "index out of bounds"]
             ELSE ReserveLoop([lists EXCEPT ![k] = <<current_start>> \o @],
                              current_start + current_size, end, total + current_size)

\* BuddyAllocator::reserve(start, size)
buddy_reserve(h, start, size) ==
    LET first == align_up(start, SizeOfU64)
        end == first + align_down(size, SizeOfU64)
        r == ReserveLoop(h.free_lists, first, end, 0)
    IN  [heap |-> IF r.panic # NoPanic THEN [h EXCEPT !.free_lists = r.free_lists]
                  ELSE [h EXCEPT !.free_lists = r.free_lists, !.total = @ + r.total],
         panic |-> r.panic]

\* the inner loop of allocate(): split a block of list j into two of list j - 1
RECURSIVE Split(_, _, _)
Split(lists, j, order) ==
    IF j <= order THEN [free_lists |-> lists, ok |-> TRUE]
    ELSE LET popped == list_pop(lists[j])
         IN  IF popped.item = None THEN [free_lists |-> [lists EXCEPT ![j] = popped.list], ok |-> FALSE]
             ELSE LET block == popped.item[1]
                      lower == <<block>> \o (<<block + 2 ^ (j - 1)>> \o lists[j - 1])
                  IN  Split([lists EXCEPT ![j] = popped.list, ![j - 1] = lower], j - 1, order)

\* the rounded size of a request: max(size.next_power_of_two(), max(align, 8))
actual_size(size, align) ==
    LET a == IF align > SizeOfU64 THEN align ELSE SizeOfU64
        n == IF size <= 1 THEN 1
             ELSE IF prev_power_of_two(size) = size THEN size
             ELSE 2 * prev_power_of_two(size)
    IN  IF n > a THEN n ELSE a

(* BuddyAllocator::allocate(layout).  The body of `for i in order..`       *)
(* returns from its first round: it splits if list i has a block, then     *)
(* pops list `order` and expects a block there.                            *)
buddy_allocate(h, size, align) ==
    LET actual == actual_size(size, align)
        order == trailing_zeros(actual)
        i == order
    IN  IF i >= ORDER THEN [heap |-> h, ret |-> "Err", block |-> None, panic |-> NoPanic]
        ELSE LET split == IF h.free_lists[i] # <<>>
                          THEN Split(h.free_lists, i, order)
                          ELSE [free_lists |-> h.free_lists, ok |-> TRUE]
                 popped == list_pop(split.free_lists[order])
                 lists == [split.free_lists EXCEPT ![order] = popped.list]
             IN  IF ~split.ok
                 THEN [heap |-> [h EXCEPT !.free_lists = split.free_lists], ret |-> "Err",
                       block |-> None, panic |-> NoPanic]
                 ELSE IF popped.item = None
                 THEN [heap |-> h, ret |-> "panic", block |-> None,
                       panic |-> "current block should have free space now"]
                 ELSE IF popped.item[1] = 0
                 THEN [heap |-> [h EXCEPT !.free_lists = lists], ret |-> "Err",
                       block |-> None, panic |-> NoPanic]
                 ELSE [heap |-> [h EXCEPT !.free_lists = lists,
                                          !.requested = @ + size,
                                          !.allocated = @ + actual],
                       ret |-> "Ok", block |-> popped.item, panic |-> NoPanic]

\* the regions handed to reserve(), <<start, size>>, and the layouts requested
HeapAreas == { <<8, 8>>, <<16, 16>>, <<32, 32>>, <<16, 48>>, <<24, 40>>, <<32, 64>> }
LayoutSizes == {0, 1, 8, 9, 16, 32, 64}
LayoutAligns == {1, 8, 16}

\* the reserve() calls made so far
HeapReserves == IF heapcall.op = "new" THEN 0 ELSE heapcall.reserves

\* everything outside the heap
notHeap == <<allocVars, boot, cpuVars, gdtVars, trapVars, vmVars, lateVars>>

\* BuddyAllocator::reserve(start, size)
HeapReserve(start, size) ==
    /\ panicked = NoPanic
    /\ HeapReserves < MaxHeapReserves
    /\ \A i \in 0..(ORDER - 1) : \A k \in 1..Len(heap.free_lists[i]) :
          LET block == heap.free_lists[i][k]
          IN  block + 2 ^ i <= start \/ start + size <= block
    /\ heap.allocated = 0
    /\ LET r == buddy_reserve(heap, start, size)
       IN  /\ heap' = r.heap
           /\ panicked' = r.panic
           /\ heapcall' = [op |-> "reserve", reserves |-> HeapReserves + 1, size |-> size,
                           align |-> start, ret |-> "()", block |-> None]
    /\ UNCHANGED notHeap

\* BuddyAllocator::allocate(Layout::from_size_align(size, align))
HeapAllocate(size, align) ==
    /\ panicked = NoPanic
    /\ LET r == buddy_allocate(heap, size, align)
       IN  /\ heap' = r.heap
           /\ panicked' = r.panic
           /\ heapcall' = [op |-> "allocate", reserves |-> HeapReserves, size |-> size,
                           align |-> align, ret |-> r.ret, block |-> r.block]
    /\ UNCHANGED notHeap

NextHeap ==
    \/ \E area \in HeapAreas : HeapReserve(area[1], area[2])
    \/ \E size \in LayoutSizes, align \in LayoutAligns : HeapAllocate(size, align)

SpecHeap == Init /\ [][NextHeap]_vars

\* the step is an allocate call
AllocateStep == \E size \in LayoutSizes, align \in LayoutAligns : HeapAllocate(size, align)

\* a list of the order of the request is there and has a block
ExactOrderBlock(size, align) ==
    LET order == trailing_zeros(actual_size(size, align))
    IN  order < ORDER /\ heap.free_lists[order] # <<>>

\* allocate with a block in the list of the exact order returns that block
AllocateExactOrder ==
    [][(AllocateStep /\ ExactOrderBlock(heapcall'.size, heapcall'.align)) =>
          /\ heapcall'.ret = "Ok"
          /\ heapcall'.block = Some(Head(heap.free_lists[
                                   trailing_zeros(actual_size(heapcall'.size, heapcall'.align))]))
          /\ heap'.requested = heap.requested + heapcall'.size
          /\ heap'.allocated = heap.allocated
                                 + actual_size(heapcall'.size, heapcall'.align)]_vars

(* C30: allocate returns Ok, with a block of the rounded size, whenever a  *)
(* free list of the order of the request or above has a block; it returns  *)
(* Err(()) and does not panic when none has; on Ok it adds layout.size()   *)
(* to requested and the rounded size to allocated.                         *)
C30_BuddyAllocate ==
    [][AllocateStep =>
          LET actual == actual_size(heapcall'.size, heapcall'.align)
              order == trailing_zeros(actual)
              available == \E i \in order..(ORDER - 1) : heap.free_lists[i] # <<>>
          IN  /\ available =>
                    /\ heapcall'.ret = "Ok"
                    /\ heapcall'.block[1] % actual = 0
                    /\ heap'.requested = heap.requested + heapcall'.size
                    /\ heap'.allocated = heap.allocated + actual
              /\ ~available => heapcall'.ret = "Err" /\ panicked' = NoPanic]_vars

----------------------------------------------------------------------------
(* First fit, over the blocks the caller has left free ("block") or over   *)
(* the zero bits of the bitmaps ("bit").                                   *)

\* block j of extent e has a zero bit in the bitmap, outside the reserved prefix
BitFree(e, j) == j >= e.reserved /\ j < bitmap_end(e) /\ ~BlockIsSet(e.bitmap, j)

\* the blocks s .. s + n - 1 of extent e are free
FreeRunAt(free, e, s, n) ==
    \A j \in s..(s + n - 1) : IF free = "bit" THEN BitFree(e, j) ELSE BlockFree(e, j)

(* allocate(size), when it returns a region, took the lowest run of        *)
(* ceil(size / block_size) free blocks of the first extent, in slot order, *)
(* that has one, set the bits of those blocks and no others, and took      *)
(* that many blocks from the extent's count.                               *)
FirstFit(free, regs, size) ==
    LET r == PhysicalAllocatorAllocate(regs, size)
        blocks(e) == bytes_to_blocks(e, size)
        has_run(e) == \E s \in 0..total_blocks(e) : FreeRunAt(free, e, s, blocks(e))
    IN  r.ret # None =>
          \E k \in Slots :
             /\ regs[k] # None
             /\ has_run(regs[k][1])
             /\ \A j \in 1..(k - 1) : regs[j] # None => ~has_run(regs[j][1])
             /\ LET e == regs[k][1]
                    n == blocks(e)
                    s == CHOOSE s \in 0..total_blocks(e) :
                            /\ FreeRunAt(free, e, s, n)
                            /\ \A t \in 0..(s - 1) : ~FreeRunAt(free, e, t, n)
                    after == r.regions[k][1]
                IN  /\ r.ret = Some(PhysRegion(e.start_addr + s * e.block_size,
                                               n * e.block_size))
                    /\ \A j \in Slots : j # k => r.regions[j] = regs[j]
                    /\ \A i \in 0..(bitmap_end(e) - 1) :
                          BlockIsSet(after.bitmap, i)
                             <=> (BlockIsSet(e.bitmap, i) \/ i \in s..(s + n - 1))
                    /\ bytes_remaining(after) = bytes_remaining(e) - n * e.block_size
                    /\ after = [e EXCEPT !.bitmap = after.bitmap,
                                         !.blocks_remaining = after.blocks_remaining]

(* An extent of 1 MiB at 1 MiB with blocks of 4 KiB: bytes_remaining is    *)
(* the blocks outside the reserved prefix, and three allocations of 4 KiB  *)
(* return three distinct regions and take 12 KiB from it.                  *)
OneMiBExtent ==
    LET regs0 == [PhysicalAllocatorNew EXCEPT
                     ![1] = Some(PhysicalMemoryBitmapNew(1048576, 1048576, 4096))]
        e0 == regs0[1][1]
        a1 == PhysicalAllocatorAllocate(regs0, 4096)
        a2 == PhysicalAllocatorAllocate(a1.regions, 4096)
        a3 == PhysicalAllocatorAllocate(a2.regions, 4096)
    IN  /\ PhysicalAllocatorBytesRemaining(regs0) = (total_blocks(e0) - e0.reserved) * 4096
        /\ total_blocks(e0) = 256
        /\ None \notin {a1.ret, a2.ret, a3.ret}
        /\ Cardinality({a1.ret, a2.ret, a3.ret}) = 3
        /\ PhysicalAllocatorBytesRemaining(a3.regions)
              = PhysicalAllocatorBytesRemaining(regs0) - 12288

\* first fit holds over the zero bits of the bitmaps, and the 1 MiB example holds
FirstFitOverBitmap ==
    panicked = NoPanic =>
        /\ \A size \in 1..(2 * MaxAllocSize) : FirstFit("bit", regions, size)
        /\ OneMiBExtent

(* C31: a successful allocate(size) takes the lowest run of                *)
(* ceil(size / block_size) consecutive free non-reserved blocks of the     *)
(* first extent, in slot order, that has such a run, sets exactly those    *)
(* bits and takes exactly that many blocks from bytes_remaining; on a      *)
(* 1 MiB extent with 4 KiB blocks bytes_remaining is (total - reserved)    *)
(* blocks and three 4 KiB allocations give three distinct regions and      *)
(* take 12 KiB.                                                            *)
C31_FirstFitExact ==
    panicked = NoPanic =>
        /\ \A size \in 1..(2 * MaxAllocSize) : FirstFit("block", regions, size)
        /\ OneMiBExtent

----------------------------------------------------------------------------
(* push_interrupt_off and pop_interrupt_off statement by statement, with   *)
(* traps arriving between the statements whenever the interrupt flag is    *)
(* set.  thr[1] is the interrupted code; a trap pushes a handler frame,    *)
(* the return from the trap pops it.                                       *)

\* handlers that may be stacked on the interrupted code
MaxHandlerFrames == 1

\* a variant of push_interrupt_off that stores intena before the cli
PushProgramSaveFirst == <<"read", "save", "cli", "count">>

\* push_interrupt_off: let enabled = is_interrupt_enabled(); cli();
\* if noff == 0 { intena = enabled }; noff += 1
PushProgram == <<"read", "cli", "save", "count">>

\* pop_interrupt_off: read of the flag, the two assertions, noff -= 1,
\* if noff == 0 && intena { sti() }
PopProgram == <<"read", "assert_flag", "assert_noff", "count", "sti">>

Top == thr[Len(thr)]

SetTop(f) == [thr EXCEPT ![Len(thr)] = f]

CallProgram(f) == IF f.op = "push" THEN PushProgram ELSE PopProgram

\* the statement the frame runs next
FrameStmt(f) == IF f.op = "idle" THEN "none" ELSE CallProgram(f)[f.at]

\* the frame after its statement: the next one, or back to idle
Advance(f) ==
    IF f.at < Len(CallProgram(f)) THEN [f EXCEPT !.at = @ + 1]
    ELSE [f EXCEPT !.op = "idle", !.at = 0]

\* code that runs with interrupts on: trap::init's interrupts::enable()
ThreadEnable ==
    /\ panicked = NoPanic
    /\ Len(thr) = 1 /\ Top.op = "idle" /\ Top.depth = 0
    /\ ~cpu.iflag
    /\ cpu' = [cpu EXCEPT !.iflag = TRUE]
    /\ thr' = SetTop([Top EXCEPT !.ended = FALSE])
    /\ UNCHANGED <<pte, dtr, con, bump, ring, panicked, allocVars, boot, gdtVars, locks, pc, raw_depth,
                   scope, nest, done, trapVars, vmVars, heapVars>>

\* a call of push_interrupt_off begins
StartPush ==
    /\ panicked = NoPanic
    /\ Top.op = "idle"
    /\ cpu.noff < MaxDepth
    /\ thr' = SetTop([Top EXCEPT !.op = "push", !.at = 1,
                                 !.flag0 = IF Top.depth = 0 THEN cpu.iflag ELSE @,
                                 !.hit = IF Top.depth = 0 THEN FALSE ELSE @,
                                 !.ended = IF Top.depth = 0 THEN FALSE ELSE @])
    /\ UNCHANGED <<pte, dtr, con, bump, ring, cpu, panicked, allocVars, boot, gdtVars, locks, pc, raw_depth,
                   scope, nest, done, trapVars, vmVars, heapVars>>

\* a call of pop_interrupt_off begins; the frame has a scope open
StartPop ==
    /\ panicked = NoPanic
    /\ Top.op = "idle"
    /\ Top.depth > 0
    /\ thr' = SetTop([Top EXCEPT !.op = "pop", !.at = 1])
    /\ UNCHANGED <<pte, dtr, con, bump, ring, cpu, panicked, allocVars, boot, gdtVars, locks, pc, raw_depth,
                   scope, nest, done, trapVars, vmVars, heapVars>>

\* one statement of push_interrupt_off
PushStmt ==
    /\ panicked = NoPanic
    /\ Top.op = "push"
    /\ LET f == Top
           stmt == FrameStmt(f)
       IN  /\ cpu' = CASE stmt = "cli" -> [cpu EXCEPT !.iflag = FALSE]
                       [] stmt = "save" ->
                            IF cpu.noff = 0 THEN [cpu EXCEPT !.intena = f.enabled]
                            ELSE cpu
                       [] stmt = "count" -> [cpu EXCEPT !.noff = @ + 1]
                       [] OTHER -> cpu
           /\ thr' = SetTop(Advance(
                  CASE stmt = "read" -> [f EXCEPT !.enabled = cpu.iflag]
                    [] stmt = "count" -> [f EXCEPT !.depth = @ + 1]
                    [] OTHER -> f))
    /\ UNCHANGED <<pte, dtr, con, bump, ring, panicked, allocVars, boot, gdtVars, locks, pc, raw_depth,
                   scope, nest, done, trapVars, vmVars, heapVars>>

\* one statement of pop_interrupt_off
PopStmt ==
    /\ panicked = NoPanic
    /\ Top.op = "pop"
    /\ LET f == Top
           stmt == FrameStmt(f)
           sti == stmt = "sti" /\ cpu.noff = 0 /\ cpu.intena
           after == IF sti THEN [cpu EXCEPT !.iflag = TRUE] ELSE cpu
       IN  /\ panicked' = CASE stmt = "assert_flag" /\ f.enabled -> "pop_intr(): interrupts should not be enabled"
                            [] stmt = "assert_noff" /\ cpu.noff = 0 -> "pop_intr(): noff = 0"
                            [] OTHER -> panicked
           /\ cpu' = IF stmt = "count" THEN [cpu EXCEPT !.noff = @ - 1] ELSE after
           /\ thr' = SetTop(Advance(
                  CASE stmt = "read" -> [f EXCEPT !.enabled = cpu.iflag]
                    [] stmt = "sti" -> [f EXCEPT !.depth = @ - 1,
                                                 !.ended = (f.depth = 1)]
                    [] OTHER -> f))
    /\ UNCHANGED <<pte, dtr, con, bump, ring, allocVars, boot, gdtVars, locks, pc, raw_depth,
                   scope, nest, done, trapVars, vmVars, heapVars>>

\* a trap arrives: the gate clears the interrupt flag and kerneltrap runs
Interrupt ==
    /\ panicked = NoPanic
    /\ cpu.iflag
    /\ Len(thr) <= MaxHandlerFrames
    /\ cpu' = [cpu EXCEPT !.iflag = FALSE]
    /\ thr' = Append(SetTop([Top EXCEPT !.hit = @ \/ FrameStmt(Top) = "cli"]),
                     Flow("handler", cpu.noff, cpu.iflag))
    /\ UNCHANGED <<pte, dtr, con, bump, ring, panicked, allocVars, boot, gdtVars, locks, pc, raw_depth,
                   scope, nest, done, trapVars, vmVars, heapVars>>

\* kerneltrap returns: iretq restores the flag that the trap saved
Iret ==
    /\ panicked = NoPanic
    /\ Len(thr) > 1
    /\ Top.op = "idle" /\ Top.depth = 0
    /\ cpu' = [cpu EXCEPT !.iflag = Top.saved_if]
    /\ thr' = SubSeq(thr, 1, Len(thr) - 1)
    /\ UNCHANGED <<pte, dtr, con, bump, ring, panicked, allocVars, boot, gdtVars, locks, pc, raw_depth,
                   scope, nest, done, trapVars, vmVars, heapVars>>

NextNest ==
    \/ ThreadEnable
    \/ StartPush
    \/ StartPop
    \/ PushStmt
    \/ PopStmt
    \/ Interrupt
    \/ Iret

SpecNest == Init /\ [][NextNest]_vars

\* a handler is running
InHandler == Len(thr) > 1

\* the step is the return from a trap
Returns == Len(thr') < Len(thr)

\* the outermost scope of the interrupted code has ended
ScopeEnded == thr[1].op = "idle" /\ thr[1].depth = 0 /\ thr[1].ended

\* C32: a handler with balanced push_interrupt_off/pop_interrupt_off may fire
\* wherever interrupts are enabled, also between push_interrupt_off's read of
\* the flag and its cli: it returns with the nesting counter it found, the
\* interrupt flag is never set while it runs, neither assertion of
\* pop_interrupt_off fails, and the outermost scope of the interrupted code
\* ends with the interrupt flag it began with
C32_ReentrancySafe ==
    /\ [](InHandler => ~cpu.iflag)
    /\ [](panicked = NoPanic)
    /\ [](ScopeEnded /\ Len(thr) = 1 => cpu.iflag = thr[1].flag0)
    /\ [][Returns => cpu.noff = Top.noff0 /\ cpu'.noff = cpu.noff]_vars

\* a scope of the interrupted code that began with interrupts on, was
\* interrupted between its read of the flag and its cli, and has ended
C32_Witness ==
    ScopeEnded /\ Len(thr) = 1 /\ thr[1].hit /\ thr[1].flag0

----------------------------------------------------------------------------
(* arch.rs PageTableEntry: one 64-bit word, written as the set of its bits *)
(* that are 1.                                                             *)

\* bitflags! PageTableFlags
ArchPageTableFlags ==
    [PRESENT |-> {0}, WRITABLE |-> {1}, USER_ACCESSIBLE |-> {2}, WRITE_THROUGH |-> {3},
     NO_CACHE |-> {4}, ACCESSED |-> {5}, DIRTY |-> {6}, HUGE_PAGE |-> {7},
     GLOBAL |-> {8}, NO_EXECUTE |-> {63}]

\* PAGESIZE = 4096 = 1 << 12
PageShift == 12

\* is_aligned(addr, PAGESIZE): align_down(addr, 4096) == addr
is_aligned_page(a) == a \cap (0..(PageShift - 1)) = {}

\* PageTableEntry::flags: from_bits_truncate(self.entry)
pte_flags(e) ==
    e \cap UNION { ArchPageTableFlags[flag] : flag \in DOMAIN ArchPageTableFlags }

\* PageTableEntry::addr: self.entry & 0x000f_ffff_ffff_f000
pte_addr(e) == e \cap (PageShift..51)

\* a variant of set_addr without its assertion
set_addr_unchecked(e, a, f) == [entry |-> a \cup f, panic |-> NoPanic]

\* PageTableEntry::set_addr
set_addr(e, a, f) ==
    IF ~is_aligned_page(a)
    THEN [entry |-> e, panic |-> "cannot set non-aligned address"]
    ELSE [entry |-> a \cup f, panic |-> NoPanic]

\* PageTableEntry::set_frame, the frame given by its start address
set_frame(e, frame, f) ==
    IF ArchPageTableFlags.HUGE_PAGE \subseteq f
    THEN [entry |-> e, panic |-> "cannot point huge page to a physical frame"]
    ELSE set_addr(e, frame, f)

\* the addresses and flag words the calls are made with: aligned and not,
\* inside the 52-bit range and beyond it
PteAddrs == SUBSET {7, 12, 51, 52}

PteFlags == SUBSET {0, 7, 63}

\* Frame::containing_address: align_down(address, PAGESIZE)
Frames == { a \ (0..(PageShift - 1)) : a \in PteAddrs }

PteCall(op, r, a, f) ==
    /\ pte' = [entry |-> r.entry, op |-> op, addr |-> a, flags |-> f, before |-> pte.entry]
    /\ panicked' = r.panic
    /\ UNCHANGED <<thr, dtr, con, bump, ring, baseVars>>

SetAddr(a, f) ==
    /\ panicked = NoPanic
    /\ PteCall("set_addr", set_addr(pte.entry, a, f), a, f)

SetFrame(frame, f) ==
    /\ panicked = NoPanic
    /\ PteCall("set_frame", set_frame(pte.entry, frame, f), frame, f)

\* PageTableEntry::set_unused
SetUnused ==
    /\ panicked = NoPanic
    /\ PteCall("set_unused", [entry |-> {}, panic |-> NoPanic], {}, {})

NextPte ==
    \/ \E a \in PteAddrs, f \in PteFlags : SetAddr(a, f)
    \/ \E frame \in Frames, f \in PteFlags : SetFrame(frame, f)
    \/ SetUnused

SpecPte == Init /\ [][NextPte]_vars

\* C33: after any sequence of set_frame, set_addr and set_unused calls a
\* non-zero entry has a 4 KiB-aligned address field; set_addr with a
\* non-aligned address and set_frame with HUGE_PAGE panic and leave the entry
\* as it was, so an entry written through set_frame does not carry HUGE_PAGE;
\* after a set_addr(a, f) that returned, with a inside the 52-bit range,
\* addr() = a and flags() = f
C33_PageTableEntry ==
    /\ pte.entry # {} => is_aligned_page(pte_addr(pte.entry))
    /\ pte.op = "set_addr" /\ ~is_aligned_page(pte.addr)
           => panicked # NoPanic /\ pte.entry = pte.before
    /\ pte.op = "set_frame" /\ 7 \in pte.flags
           => panicked # NoPanic /\ pte.entry = pte.before
    /\ pte.op = "set_frame" /\ panicked = NoPanic => 7 \notin pte_flags(pte.entry)
    /\ pte.op = "set_addr" /\ panicked = NoPanic /\ pte.addr \subseteq 0..51
           => pte_addr(pte.entry) = pte.addr /\ pte_flags(pte.entry) = pte.flags

\* a set_addr with an address of the 52-bit range and flags has returned, on
\* an entry that was written before
C33_Witness ==
    /\ pte.op = "set_addr" /\ panicked = NoPanic
    /\ pte.addr = {12, 51} /\ pte.flags = {0, 63} /\ pte.before # {}

----------------------------------------------------------------------------
(* Misuse of a Spinlock: acquire of a lock the core holds, release of one  *)
(* it does not hold.                                                       *)

\* the release of lock l has cleared the owner and not yet returned
Releasing(l) == pc.op = "release" /\ pc.lock = l /\ pc.step \in {"xchg", "pop"}

\* C34: acquire on a Spinlock the core already holds panics with 'nested
\* lock' and never reaches the exchange on a set lock word, where it would
\* spin forever; release on a Spinlock the core does not hold panics with
\* 'unlocking unheld lock' and leaves the lock words, the nesting counter and
\* the interrupt flag as they were; holding() is true exactly from the
\* completion of an acquire to the next release
C34_MisuseFailsFast ==
    /\ [](pc.op = "acquire" /\ pc.step = "xchg" => locks[pc.lock].locked = 0)
    /\ [](\A l \in Locks : holding(locks[l]) <=> scope[l].how # "free" /\ ~Releasing(l))
    /\ [][/\ AcquireAssert /\ holding(locks[pc.lock])
              => panicked' = "acquire(): nested lock" /\ locks' = locks
          /\ \A l \in Locks : ReleaseAssert(l) /\ ~holding(locks[l])
              => /\ panicked' = "release(): unlocking unheld lock"
                 /\ locks' = locks /\ scope' = scope
                 /\ cpu'.noff = cpu.noff /\ cpu'.iflag = cpu.iflag]_vars

\* acquire has panicked on a lock the core holds, its word still set
C34_Witness ==
    /\ panicked = "acquire(): nested lock"
    /\ pc.op = "acquire" /\ holding(locks[pc.lock])
    /\ scope[pc.lock].how = "acquire"

\* release has panicked on a lock the core does not hold, another one held
C34_WitnessRelease ==
    /\ panicked = "release(): unlocking unheld lock"
    /\ \E l \in Locks : holding(locks[l])
    /\ cpu.noff > 0

----------------------------------------------------------------------------
(* FrameAllocator<S>::allocate_frame of PhysicalAllocator. *)

\* allocate_frame: self.allocate(S::SIZE).and_then(|x| x.try_into().ok());
\* try_into is PhysFrame::from_start_address, an error unless the start
\* address is a multiple of S::SIZE
allocate_frame(regs, S) ==
    LET r == PhysicalAllocatorAllocate(regs, S)
    IN  IF r.ret # None /\ r.ret[1].start_address % S # 0
        THEN [r EXCEPT !.ret = None]
        ELSE r

\* S::SIZE of the page sizes, in the unit of the extents' block sizes
PageSizes == {1, 2, 4}

\* every block of the region is set in the bitmap of an extent
MarkedIn(regs, region) ==
    \E k \in Slots :
        /\ regs[k] # None
        /\ LET e == regs[k][1]
               first == (region.start_address - e.start_addr) \div e.block_size
           IN  /\ region.start_address >= e.start_addr
               /\ \A i \in first..(first + bytes_to_blocks(e, region.size) - 1) :
                      i < bitmap_end(e) /\ BlockIsSet(e.bitmap, i)

\* what the claim says of allocate_frame::<S> in the state
FrameOrNothing(S) ==
    LET r == allocate_frame(regions, S)
    IN  IF r.ret # None
        THEN /\ r.ret[1].start_address % S = 0
             /\ r.ret[1].size = S
             /\ MarkedIn(r.regions, r.ret[1])
        ELSE r.regions = regions

\* allocate_frame::<S> for an S that is the block size of every extent
\* returns an aligned, marked frame or None without a change
AllocateFrameOfBlockSize ==
    panicked = NoPanic =>
        \A S \in PageSizes :
            (\A e \in Extents(regions) : e.block_size = S) => FrameOrNothing(S)

\* C35: for every page size S and every state of the allocator,
\* allocate_frame either returns a frame with an S-aligned start address
\* whose blocks are marked in the bitmap, or returns None and leaves
\* bytes_remaining and every bitmap as they were
C35_FailedFrameConsumesNothing ==
    panicked = NoPanic => \A S \in PageSizes : FrameOrNothing(S)

----------------------------------------------------------------------------
(* Where the descriptor tables of a per-CPU init stand.  init builds its   *)
(* TaskStateSegment and its GlobalDescriptorTable in locals and moves them *)
(* into the per-CPU structure; the four objects are alive together, so     *)
(* their addresses are pairwise distinct.                                  *)

\* addresses an object may stand at, as the sets of their bits
ObjectAddrs == { {12, 21, 30, 39}, {13, 21, 30, 39}, {12}, {30, 33}, 0..63 }

\* the objects of init: its two locals and the two fields of the Cpu
InitObjects == {"tss", "gdt", "cpu.tss", "cpu.gdt"}

Placements == { at \in [InitObjects -> ObjectAddrs] :
                   \A x, y \in InitObjects : x # y => at[x] # at[y] }

\* GlobalDescriptorTable::pointer: base = self.table.as_ptr(), the table
\* being the first field of the GlobalDescriptorTable at address g
pointer_base(g) == g

\* the base a processor reads from a system-segment descriptor: bits 16..40
\* and 56..64 of the low word and bits 0..32 of the high word
descriptor_base(low, high) ==
    set_bits(set_bits(set_bits({}, 0, 24, get_bits(low, 16, 40)),
                      24, 32, get_bits(low, 56, 64)),
             32, 64, get_bits(high, 0, 32))

(* init of arch.rs and of cpu.rs: tss_segment(&tss) of the local tss goes  *)
(* into the local gdt, gdt.load() runs on the local gdt (in arch.rs after  *)
(* the table was copied into *cpu, in cpu.rs before), and the Cpu          *)
(* structure receives copies of both.                                      *)
PerCpuInit(variant, at) ==
    /\ panicked = NoPanic
    /\ dtr.op = "none"
    /\ LET entries == IF variant = "arch.rs"
                      THEN << kernel_code_segment, kernel_data_segment,
                              user_code_segment, user_data_segment, tss_segment(at["tss"]) >>
                      ELSE << kernel_code_segment, kernel_data_segment, tss_segment(at["tss"]) >>
           r == AddEntries(GlobalDescriptorTableNew, entries, <<>>)
           tr == selector_index(r.rets[Len(r.rets)])
       IN  /\ dtr' = [op |-> "init", variant |-> variant, at |-> at,
                      gdtr |-> pointer_base(at["gdt"]),
                      cpu_gdt |-> r.gdt,
                      tss_base |-> descriptor_base(r.gdt.table[tr], r.gdt.table[tr + 1])]
           /\ panicked' = r.panic
    /\ UNCHANGED <<thr, pte, con, bump, ring, baseVars>>

NextPerCpu == \E variant \in {"arch.rs", "cpu.rs"}, at \in Placements : PerCpuInit(variant, at)

SpecPerCpu == Init /\ [][NextPerCpu]_vars

\* after init the GDT base in the core and the base in the TSS descriptor
\* are the addresses of init's locals
TablesPointAtInitLocals ==
    dtr.op = "init" =>
        /\ dtr.gdtr = dtr.at["gdt"]
        /\ dtr.tss_base = dtr.at["tss"]

\* C36: after the per-CPU init has returned, the GDT base loaded into the
\* core is the address of the gdt field of the per-CPU structure and the base
\* in the TSS descriptor of the GDT is the address of its tss field
C36_TablesInPerCpuStorage ==
    dtr.op = "init" =>
        /\ dtr.gdtr = dtr.at["cpu.gdt"]
        /\ dtr.tss_base = dtr.at["cpu.tss"]

----------------------------------------------------------------------------
(* The extents of memory::init against the areas of the boot memory map. *)

\* the extent lies inside the area [addr, addr + len) the map reports
InsideArea(e, a) == a.addr <= e.start_addr /\ e.start_addr + e.size <= a.addr + a.len

\* every extent that holds memory lies inside one Available area of the map
ExtentsInsideAvailable ==
    \A e \in Extents(regions) :
        e.size > 0 => \E i \in AvailableAreas : InsideArea(e, boot.mmap[i])

\* where every Available area of the map starts on a 4 KiB boundary, the
\* extents lie inside the Available areas, whatever the lengths
AlignedAreasStayInside ==
    (boot.started /\ \A i \in AvailableAreas : boot.mmap[i].addr % PAGE = 0)
        => ExtentsInsideAvailable

\* C37: for every boot memory map, each extent memory::init registers lies
\* entirely inside one Available area [addr, addr + len) of the map, also
\* when addr or len is no multiple of 4 KiB; areas of another type are never
\* registered
C37_OnlyReportedMemory ==
    boot.started => ExtentsInsideAvailable

----------------------------------------------------------------------------
(* The locks of the console path.  Each function is the sequence of its    *)
(* lock statements: "lock" and "unlock" of a spin::Mutex, "off" and        *)
(* "restore" for the two ends of interrupts::without_interrupts.  The      *)
(* serial handler runs on top of the interrupted function, entered         *)
(* through an interrupt gate, and runs to its end before that function     *)
(* goes on.                                                                *)

Stmt(kind, lock) == [kind |-> kind, lock |-> lock]

\* print of kernel/console.rs and print_fmt of sys/serial.rs:
\* without_interrupts(|| MUTEX.lock().write_fmt(args))
PrintStmts(lock) ==
    << Stmt("off", "none"), Stmt("lock", lock), Stmt("unlock", lock), Stmt("restore", "none") >>

\* a call that locks one Mutex for one statement: uart::init, serial::init,
\* uart::read, is_echo_enabled
LockedStmts(lock) == << Stmt("lock", lock), Stmt("unlock", lock) >>

\* INPUT_BUFFER.lock().echo = v and CONSOLE.lock().set_echo(v)
EchoStmts(lock, v) == << Stmt("lock", lock), Stmt("echo", v), Stmt("unlock", lock) >>

\* the functions non-interrupt code calls; `boot` marks those kernel_main and
\* init call before interrupts are enabled and not again
ConsoleCalls ==
    [ kernel |->
        [ uart_init   |-> [boot |-> TRUE,  stmts |-> LockedStmts("UART")],
          print       |-> [boot |-> FALSE, stmts |-> PrintStmts("UART")],
          enable_echo  |-> [boot |-> FALSE, stmts |-> EchoStmts("INPUT_BUFFER", TRUE)],
          disable_echo |-> [boot |-> FALSE, stmts |-> EchoStmts("INPUT_BUFFER", FALSE)] ],
      sys |->
        [ serial_init |-> [boot |-> TRUE,  stmts |-> LockedStmts("SERIAL")],
          print_fmt   |-> [boot |-> FALSE, stmts |-> PrintStmts("SERIAL")],
          enable_echo  |-> [boot |-> FALSE, stmts |-> EchoStmts("CONSOLE", TRUE)],
          disable_echo |-> [boot |-> FALSE, stmts |-> EchoStmts("CONSOLE", FALSE)],
          is_echo_enabled |-> [boot |-> FALSE, stmts |-> LockedStmts("CONSOLE")] ] ]

(* console::interrupt of kernel/console.rs: INPUT_BUFFER.lock(), then      *)
(* uart::read() and the echo through print!, INPUT_BUFFER released at the  *)
(* end; serial_intr_handler of sys/serial.rs: SERIAL.lock().read_byte(),   *)
(* then keypress with CONSOLE.lock(), console.stdin.lock() and print!.     *)
(* Both print the character only when echo is on.                          *)
HandlerStmts(variant, echo) ==
    LET printed == IF echo THEN PrintStmts(IF variant = "kernel" THEN "UART" ELSE "SERIAL")
                   ELSE <<>>
    IN  IF variant = "kernel"
        THEN << Stmt("lock", "INPUT_BUFFER") >> \o LockedStmts("UART")
                 \o printed \o << Stmt("unlock", "INPUT_BUFFER") >>
        ELSE LockedStmts("SERIAL")
                 \o << Stmt("lock", "CONSOLE"), Stmt("lock", "stdin") >>
                 \o printed
                 \o << Stmt("unlock", "stdin"), Stmt("unlock", "CONSOLE") >>

ConsoleLocks == {"UART", "INPUT_BUFFER", "SERIAL", "CONSOLE", "stdin"}

\* a flow that runs nothing
NoCall == [call |-> "none", at |-> 0, saved |-> FALSE]

\* kernel_main of one of the two kernels starts, interrupts off; echo is
\* false in INPUT_BUFFER and true in Console::new
ConBoot(variant) ==
    /\ con.op = "none"
    /\ con' = [op |-> "run", variant |-> variant, iflag |-> FALSE, booted |-> FALSE,
               echo |-> (variant = "sys"),
               locks |-> [l \in ConsoleLocks |-> "free"],
               main |-> NoCall, irq |-> NoCall, saved_if |-> FALSE]
    /\ UNCHANGED <<panicked, thr, pte, dtr, bump, ring, baseVars>>

\* trap::init and interrupts::init: interrupts::enable() at the end of boot
ConEnable ==
    /\ con.op = "run" /\ ~con.booted
    /\ con.main = NoCall
    /\ con' = [con EXCEPT !.booted = TRUE, !.iflag = TRUE]
    /\ UNCHANGED <<panicked, thr, pte, dtr, bump, ring, baseVars>>

\* non-interrupt code calls one of the functions
ConCall(c) ==
    /\ con.op = "run"
    /\ con.main = NoCall /\ con.irq = NoCall
    /\ c \in DOMAIN ConsoleCalls[con.variant]
    /\ ConsoleCalls[con.variant][c].boot = ~con.booted
    /\ con' = [con EXCEPT !.main = [call |-> c, at |-> 1, saved |-> FALSE]]
    /\ UNCHANGED <<panicked, thr, pte, dtr, bump, ring, baseVars>>

\* the state after flow `who` has run statement st; a lock statement on a
\* Mutex that is taken spins, which leaves the state as it is
AfterStmt(who, st, final) ==
    LET flow == con[who]
        next == IF final THEN NoCall ELSE [flow EXCEPT !.at = @ + 1]
    IN  CASE st.kind = "lock" ->
                 IF con.locks[st.lock] # "free" THEN con
                 ELSE [con EXCEPT !.locks[st.lock] = who, ![who] = next]
          [] st.kind = "unlock" -> [con EXCEPT !.locks[st.lock] = "free", ![who] = next]
          [] st.kind = "echo" -> [con EXCEPT !.echo = st.lock, ![who] = next]
          [] st.kind = "off" ->
                 [con EXCEPT !.iflag = FALSE, ![who] = [next EXCEPT !.saved = con.iflag]]
          [] st.kind = "restore" ->
                 [con EXCEPT !.iflag = IF flow.saved THEN TRUE ELSE @, ![who] = next]

\* one statement of the function non-interrupt code is in
ConMainStmt ==
    /\ con.op = "run"
    /\ con.main # NoCall /\ con.irq = NoCall
    /\ LET stmts == ConsoleCalls[con.variant][con.main.call].stmts
       IN  con' = AfterStmt("main", stmts[con.main.at], con.main.at = Len(stmts))
    /\ con' # con
    /\ UNCHANGED <<panicked, thr, pte, dtr, bump, ring, baseVars>>

\* the serial IRQ arrives: the gate clears the flag, the handler starts
ConIrq ==
    /\ con.op = "run" /\ con.booted
    /\ con.iflag /\ con.irq = NoCall
    /\ con' = [con EXCEPT !.irq = [call |-> "handler", at |-> 1, saved |-> FALSE],
                          !.saved_if = con.iflag, !.iflag = FALSE]
    /\ UNCHANGED <<panicked, thr, pte, dtr, bump, ring, baseVars>>

\* one statement of the handler; after the final one iretq restores the flag
ConIrqStmt ==
    /\ con.op = "run"
    /\ con.irq # NoCall
    /\ LET stmts == HandlerStmts(con.variant, con.echo)
           final == con.irq.at = Len(stmts)
           after == AfterStmt("irq", stmts[con.irq.at], final)
       IN  con' = IF final /\ after # con THEN [after EXCEPT !.iflag = con.saved_if] ELSE after
    /\ con' # con
    /\ UNCHANGED <<panicked, thr, pte, dtr, bump, ring, baseVars>>

NextConsole ==
    \/ \E variant \in {"kernel", "sys"} : ConBoot(variant)
    \/ ConEnable
    \/ \E c \in {"uart_init", "serial_init", "print", "print_fmt", "enable_echo",
                  "disable_echo", "is_echo_enabled"} : ConCall(c)
    \/ ConMainStmt
    \/ ConIrq
    \/ ConIrqStmt

SpecConsole == Init /\ [][NextConsole]_vars

\* the locks the handler path takes
HandlerLocks ==
    { HandlerStmts(con.variant, TRUE)[i].lock : i \in 1..Len(HandlerStmts(con.variant, TRUE)) }
        \ {"none"}

\* the handler is at the lock() of a Mutex that the code it interrupted holds
HandlerSpins ==
    /\ con.op = "run"
    /\ con.irq # NoCall
    /\ LET st == HandlerStmts(con.variant, con.echo)[con.irq.at]
       IN  st.kind = "lock" /\ con.locks[st.lock] = "main"

\* the functions that take a lock of the handler path without
\* without_interrupts, after boot
EchoCalls == {"enable_echo", "disable_echo", "is_echo_enabled"}

\* outside the echo functions no lock of the handler path is held by
\* non-interrupt code with interrupts on, and the handler never spins
PrintNeverBlocksHandler ==
    (con.op = "run" /\ con.main.call \notin EchoCalls) =>
        /\ \A l \in HandlerLocks : con.locks[l] = "main" => ~con.iflag
        /\ ~HandlerSpins

\* C38: every lock the serial handler path takes is held by non-interrupt
\* code only while interrupts are disabled, so the handler never waits for a
\* lock held by the code it interrupted
C38_HandlerCannotDeadlock ==
    con.op = "run" =>
        /\ \A l \in HandlerLocks : con.locks[l] = "main" => ~con.iflag
        /\ ~HandlerSpins

----------------------------------------------------------------------------
(* ConsoleInputBuffer and the bytes console::interrupt takes from the      *)
(* UART.  The buffer is scaled from 256 slots to RingSize and usize from   *)
(* 2^64 to WordModulus.  A usize subtraction below zero panics in a build  *)
(* with overflow checks and wraps in one without.                          *)

\* the slots of ConsoleInputBuffer.buffer (256 in the source)
RingSize == 4

\* the number of values of a usize (2^64 in the source)
WordModulus == 16

\* the bytes the UART delivers: a letter, '\n', '\r', Ctrl-D, Ctrl-U, NUL
Bytes == {"a", "nl", "cr", "ctrl_d", "ctrl_u", "nul"}

\* INPUT_BUFFER as its initializer leaves it; `pending` and `committed` are
\* the slots written since the last commit and those committed and not read
ConsoleInputBufferNew ==
    [ op |-> "run", build |-> "debug",
      buffer |-> [i \in 0..(RingSize - 1) |-> "nul"],
      read_index |-> 0, write_index |-> 0, edit_index |-> 0,
      pending |-> {}, committed |-> {}, stored |-> 0,
      underflow |-> FALSE, overwrote |-> FALSE ]

\* the arm CTRL_U: while e != w && buffer[(e - 1) % 256] != '\n' { edit_index -= 1 }
RECURSIVE KillLine(_)
KillLine(r) ==
    LET e == r.edit_index
        w == r.write_index
        below == IF e = 0 THEN WordModulus - 1 ELSE e - 1
        slot == below % RingSize
    IN  IF e = w THEN [ring |-> r, panic |-> NoPanic]
        ELSE IF e = 0 /\ r.build = "debug"
        THEN [ring |-> [r EXCEPT !.underflow = TRUE],
              panic |-> "attempt to subtract with overflow"]
        ELSE IF r.buffer[slot] = "nl"
        THEN [ring |-> [r EXCEPT !.underflow = @ \/ e = 0], panic |-> NoPanic]
        ELSE KillLine([r EXCEPT !.edit_index = below,
                                !.underflow = @ \/ e = 0,
                                !.pending = @ \ {slot}])

\* the arm `_`: the byte is stored at edit_index and committed on '\n',
\* Ctrl-D and a full buffer
StoreByte(r, ch0) ==
    LET under == r.edit_index < r.read_index
        diff == (r.edit_index - r.read_index) % WordModulus
    IN  IF ch0 = "nul" THEN [ring |-> r, panic |-> NoPanic]
        ELSE IF under /\ r.build = "debug"
        THEN [ring |-> [r EXCEPT !.underflow = TRUE],
              panic |-> "attempt to subtract with overflow"]
        ELSE IF ~(diff < RingSize)
        THEN [ring |-> [r EXCEPT !.underflow = @ \/ under], panic |-> NoPanic]
        ELSE LET ch == IF ch0 = "cr" THEN "nl" ELSE ch0
                 e == r.edit_index
                 edit == ((e + 1) % WordModulus) % RingSize
                 commit == ch = "nl" \/ ch = "ctrl_d" \/ edit = r.read_index + RingSize
             IN  IF e >= RingSize
                 THEN [ring |-> r, panic |-> "index out of bounds"]
                 ELSE [ring |-> [r EXCEPT !.buffer[e] = ch,
                                          !.edit_index = edit,
                                          !.write_index = IF commit THEN edit ELSE @,
                                          !.overwrote = @ \/ e \in r.committed,
                                          !.pending = IF commit THEN {} ELSE @ \cup {e},
                                          !.committed = IF commit THEN @ \cup r.pending \cup {e}
                                                        ELSE @,
                                          !.stored = IF @ < RingSize THEN @ + 1 ELSE @,
                                          !.underflow = @ \/ under],
                       panic |-> NoPanic]

\* the kernel starts, built with or without overflow checks
RingBoot(profile) ==
    /\ ring.op = "none"
    /\ ring' = [ConsoleInputBufferNew EXCEPT !.build = profile]
    /\ UNCHANGED <<panicked, thr, pte, dtr, con, bump, baseVars>>

\* console::interrupt takes one byte from the UART
ReceiveByte(ch) ==
    /\ panicked = NoPanic
    /\ ring.op = "run"
    /\ LET r == IF ch = "ctrl_u" THEN KillLine(ring) ELSE StoreByte(ring, ch)
       IN  /\ ring' = r.ring
           /\ panicked' = r.panic
    /\ UNCHANGED <<thr, pte, dtr, con, bump, baseVars>>

NextRing ==
    \/ \E profile \in {"debug", "release"} : RingBoot(profile)
    \/ \E ch \in Bytes : ReceiveByte(ch)

SpecRing == Init /\ [][NextRing]_vars

\* the three indices are in 0..RingSize, no subtraction went below zero, no
\* access left the buffer, no committed and unread character was overwritten
RingInRange ==
    /\ panicked = NoPanic
    /\ ring.read_index \in 0..RingSize
    /\ ring.write_index \in 0..RingSize
    /\ ring.edit_index \in 0..RingSize
    /\ ~ring.underflow
    /\ ~ring.overwrote

\* as long as fewer characters were stored than the buffer has slots, the
\* indices stay in range
InRangeUntilFull ==
    (ring.op = "run" /\ ring.stored < RingSize) => RingInRange

\* C39: after any sequence of bytes processed by console::interrupt,
\* read_index, write_index and edit_index are in range, every buffer access
\* is in bounds, no index subtraction underflows, and no character that was
\* committed and not yet read is overwritten
C39_RingIndicesInRange ==
    ring.op = "run" => RingInRange

----------------------------------------------------------------------------
(* BootInfoFrameAllocator of sys/alloc.rs.  A region of the boot loader's  *)
(* memory map is a range of frame numbers [start, end) and a type; a frame *)
(* is written as its number, its address being 0x1000 times that.          *)

\* allocate_frame calls on one allocator
MaxBumpCalls == 4

MemoryRegion(start, end, region_type) ==
    [start |-> start, end |-> end, region_type |-> region_type]

\* the regions of the maps: Usable ones that touch, one that is empty, one
\* apart from the others, and one of another type
BootRegions ==
    { MemoryRegion(0, 2, "Usable"), MemoryRegion(2, 3, "Usable"),
      MemoryRegion(3, 5, "Reserved"), MemoryRegion(5, 5, "Usable"),
      MemoryRegion(6, 8, "Usable") }

\* the memory maps of the boot loader: regions that share no frame
BootMaps ==
    { <<>> } \cup { <<a>> : a \in BootRegions }
             \cup { m \in BootRegions \X BootRegions : m[1] # m[2] }

\* usable_frames: the frames of the Usable regions, in the order of the map
RECURSIVE usable_frames(_)
usable_frames(map) ==
    IF map = <<>> THEN <<>>
    ELSE LET r == Head(map)
             frames == IF r.region_type = "Usable"
                       THEN [i \in 1..(r.end - r.start) |-> r.start + i - 1]
                       ELSE <<>>
         IN  frames \o usable_frames(Tail(map))

\* a variant of allocate_frame that leaves next_frame as it is
bump_allocate_frame_stay(b) ==
    LET frames == usable_frames(b.memory_map)
    IN  [next_frame |-> b.next_frame,
         ret |-> IF b.next_frame < Len(frames) THEN Some(frames[b.next_frame + 1]) ELSE None]

\* allocate_frame: usable_frames().nth(self.next_frame); self.next_frame += 1
bump_allocate_frame(b) ==
    LET frames == usable_frames(b.memory_map)
    IN  [next_frame |-> b.next_frame + 1,
         ret |-> IF b.next_frame < Len(frames) THEN Some(frames[b.next_frame + 1]) ELSE None]

\* BootInfoFrameAllocator::init(memory_map)
BootInfoFrameAllocatorInit(map) ==
    /\ bump.op = "none"
    /\ bump' = [op |-> "run", memory_map |-> map, next_frame |-> 0, given |-> <<>>]
    /\ UNCHANGED <<panicked, thr, pte, dtr, con, ring, baseVars>>

\* allocate_frame, called by init_heap and by map_to for its page tables
BumpAllocateFrame ==
    /\ bump.op = "run"
    /\ Len(bump.given) < MaxBumpCalls
    /\ LET r == bump_allocate_frame(bump)
       IN  bump' = [bump EXCEPT !.next_frame = r.next_frame, !.given = Append(@, r.ret)]
    /\ UNCHANGED <<panicked, thr, pte, dtr, con, ring, baseVars>>

NextBump ==
    \/ \E map \in BootMaps : BootInfoFrameAllocatorInit(map)
    \/ BumpAllocateFrame

SpecBump == Init /\ [][NextBump]_vars

\* the frame lies in a region of the map marked Usable
InUsableRegion(frame) ==
    \E i \in 1..Len(bump.memory_map) :
        LET r == bump.memory_map[i]
        IN  r.region_type = "Usable" /\ r.start <= frame /\ frame < r.end

\* C40: over any sequence of allocate_frame calls on a BootInfoFrameAllocator
\* the frames returned are pairwise distinct and each lies in a region marked
\* Usable, and once a call has returned None every later call returns None
C40_BumpNeverRepeats ==
    bump.op = "run" =>
        \A i, j \in 1..Len(bump.given) :
            /\ bump.given[i] # None => InUsableRegion(bump.given[i][1])
            /\ (i < j /\ bump.given[i] # None) => bump.given[i] # bump.given[j]
            /\ (i < j /\ bump.given[i] = None) => bump.given[j] = None

\* the frames of two regions were handed out and the last call returned None
C40_Witness ==
    /\ bump.op = "run"
    /\ Len(bump.given) = MaxBumpCalls
    /\ Len(bump.memory_map) = 2
    /\ bump.given[1] # None /\ bump.given[3] # None
    /\ bump.given[MaxBumpCalls] = None

====
